---- MODULE Spec2Model ----
(***************************************************************************)
(* A model of the naval operations planner: the bathymetry service and its *)
(* cache (naval_ops/bathymetry.py), the grid collector                     *)
(* (naval_ops/collector.py) and the suitability scorer                     *)
(* (naval_ops/analyzer.py).                                                *)
(*                                                                         *)
(* Units.  Latitudes, longitudes and bearings are integers in micro-       *)
(* degrees (1e-6 degree); distances are integers in micro nautical miles;  *)
(* depth_m is in metres and depth_ft in 1e-5 ft, so that the conversion    *)
(* factor 3.28084 is the integer 328084.  Scores are exact rationals       *)
(* <<numerator, denominator>>; the rounded scores of a ScoreBreakdown are  *)
(* integers in tenths of a point.                                          *)
(***************************************************************************)
EXTENDS Integers, Sequences, FiniteSets, TLC

(***************************************************************************)
(* Bounds of the model.                                                    *)
(***************************************************************************)
\* The number of direct get_bathymetry calls a behaviour of SpecBathy makes.
MaxCalls == 3

(***************************************************************************)
(* Python values: a number, None, or a key missing from a dict.            *)
(***************************************************************************)
Num(v) == [k |-> "num", v |-> v]
None == [k |-> "none", v |-> 0]
Missing == [k |-> "missing", v |-> 0]

\* A local that is not assigned yet.
Unset == [k |-> "unset", v |-> 0]

Abs(x) == IF x < 0 THEN -x ELSE x

Range(s) == {s[j] : j \in DOMAIN s}

(***************************************************************************)
(* naval_ops/bathymetry.py                                                 *)
(***************************************************************************)
\* M_TO_FT = 3.28084, as the numerator over FT_UNIT.
M_TO_FT == 328084
\* depth_ft is kept in units of 1/FT_UNIT ft.
FT_UNIT == 100000

\* f"{x:.5f}" of a coordinate x in micro-degrees: the sign character and the
\* digits of |x| rounded to 5 decimals.  A negative x that rounds to zero
\* prints as "-0.00000", which is another string than "0.00000".  (Exact
\* ties, x = ...5 micro-degrees, are decided by the binary value of the
\* float; the coordinates of this model avoid them.)
Fmt5(x) == [neg |-> x < 0, digits |-> (Abs(x) + 5) \div 10]

\* key = f"{lat:.5f},{lon:.5f}"
CacheKey(lat, lon) == <<Fmt5(lat), Fmt5(lon)>>

\* BathymetryResult.to_dict()
BathymetryResult(depth_m, depth_ft, is_ocean, estimated, source) ==
    [depth_m |-> depth_m, depth_ft |-> depth_ft, is_ocean |-> is_ocean,
     estimated |-> estimated, source |-> source]

\* What the request to OpenTopoData can end in: a network or HTTP error, a
\* payload with no results, a result with no elevation, a NaN elevation, or
\* an elevation in metres.
FetchNetworkError == [kind |-> "network_error", elev |-> 0]
FetchNoResults == [kind |-> "no_results", elev |-> 0]
FetchNoElevation == [kind |-> "no_elevation", elev |-> 0]
FetchNaN == [kind |-> "nan", elev |-> 0]
FetchElevation(e) == [kind |-> "elevation", elev |-> e]

Elevations == {-100, 0, 25}

BathyFetchOutcomes ==
    {FetchNetworkError, FetchNoResults, FetchNoElevation, FetchNaN}
        \cup {FetchElevation(e) : e \in Elevations}

\* The except branch of get_bathymetry.
FallbackEstimate ==
    BathymetryResult(50, 50 * M_TO_FT, TRUE, TRUE, "Fallback estimate")

\* A bug get_bathymetry could have: an elevation of exactly 0 taken as ocean.
BathyFromFetchZeroIsOcean(outcome) ==
    IF outcome.kind # "elevation"
    THEN FallbackEstimate
    ELSE IF outcome.elev <= 0
         THEN BathymetryResult(Abs(outcome.elev), Abs(outcome.elev) * M_TO_FT,
                               TRUE, FALSE, "OpenTopoData GEBCO2020")
         ELSE BathymetryResult(0, 0, FALSE, FALSE, "OpenTopoData GEBCO2020")

\* The try/except of get_bathymetry: the result built from what the request
\* returned.
BathyFromFetch(outcome) ==
    IF outcome.kind # "elevation"
    THEN FallbackEstimate
    ELSE IF outcome.elev < 0
         THEN BathymetryResult(Abs(outcome.elev), Abs(outcome.elev) * M_TO_FT,
                               TRUE, FALSE, "OpenTopoData GEBCO2020")
         ELSE BathymetryResult(0, 0, FALSE, FALSE, "OpenTopoData GEBCO2020")

CachePut(c, key, out) ==
    [k \in DOMAIN c \cup {key} |-> IF k = key THEN out ELSE c[k]]

\* get_bathymetry(lat, lon) on a service whose cache is c, when the request,
\* if one is made, ends in outcome: the value returned, the cache afterwards
\* and whether a request was made.
get_bathymetry(c, lat, lon, outcome) ==
    LET key == CacheKey(lat, lon) IN
    IF key \in DOMAIN c
    THEN [ret |-> c[key], cache |-> c, requested |-> FALSE]
    ELSE LET out == BathyFromFetch(outcome) IN
         [ret |-> out, cache |-> CachePut(c, key, out), requested |-> TRUE]

(***************************************************************************)
(* naval_ops/collector.py: the pure parts                                  *)
(***************************************************************************)
\* A location string.  "coords" is text such as "11.6808, 92.5566", with the
\* two numbers as printed, in units of 1e-4 degree; "name" is a place name
\* without a comma; "name_comma" is a place name with a comma in it, such as
\* "Port Blair, India"; "empty" is the empty string.
LocCoords(lat4, lon4) == [text |-> "coords", lat4 |-> lat4, lon4 |-> lon4]
LocName == [text |-> "name", lat4 |-> 0, lon4 |-> 0]
LocNameComma == [text |-> "name_comma", lat4 |-> 0, lon4 |-> 0]
LocEmpty == [text |-> "empty", lat4 |-> 0, lon4 |-> 0]

\* ',' in location
HasComma(loc) == loc.text \in {"coords", "name_comma"}

\* float(parts[0].strip()), float(parts[1].strip()) raise for a place name.
FloatsParse(loc) == loc.text = "coords"

\* float("11.6808") in micro-degrees.
ParseFloat(digits4) == digits4 * 100

\* bool(location)
Truthy(loc) == loc.text # "empty"

\* A geocoded place, or None.
Place(lat, lon, name) == [found |-> TRUE, lat |-> lat, lon |-> lon, name |-> name]
NoPlace == [found |-> FALSE, lat |-> 0, lon |-> 0, name |-> ""]

\* What the request to the geocoding API can end in.
GeoMatch(lat, lon) == [kind |-> "match", lat |-> lat, lon |-> lon]
GeoNoResults == [kind |-> "no_results", lat |-> 0, lon |-> 0]
GeoError == [kind |-> "error", lat |-> 0, lon |-> 0]

\* geocode_location(location) when the name lookup, if one is made, ends in
\* outcome: the place or None, and whether a request was made.
geocode_location(loc, outcome) ==
    IF HasComma(loc) /\ FloatsParse(loc)
    THEN [res |-> Place(ParseFloat(loc.lat4), ParseFloat(loc.lon4), "Custom Location"),
          requested |-> FALSE]
    ELSE [res |-> IF outcome.kind = "match"
                  THEN Place(outcome.lat, outcome.lon, "results[0].name")
                  ELSE NoPlace,
          requested |-> TRUE]

\* calculate_bearing(lat1, lon1, lat2, lon2), in micro-degrees rounded down,
\* evaluated by the source on the coordinate pairs of this model.
BearingTable ==
    { <<11623400, 92726500, 11622400, 92725500, 224406606>>,
      <<11623400, 92726500, 11622400, 92734500, 97271787>>,
      <<11623400, 92726500, 11623399, 92726499, 224406454>>,
      <<11623400, 92726500, 11623399, 92726502, 117042863>>,
      <<11623400, 92726500, 11623402, 92726499, 333906858>>,
      <<11623400, 92726500, 11623402, 92726502, 44406454>>,
      <<11623400, 92726500, 11631400, 92725500, 353019839>>,
      <<11680800, 92556600, 11679800, 92555600, 224400689>>,
      <<11680800, 92556600, 11679800, 92564600, 97273270>>,
      <<11680800, 92556600, 11680795, 92556597, 210437406>>,
      <<11680800, 92556600, 11680795, 92556599, 191081568>>,
      <<11680800, 92556600, 11680795, 92556601, 168918431>>,
      <<11680800, 92556600, 11680795, 92556603, 149562593>>,
      <<11680800, 92556600, 11680797, 92556595, 238504684>>,
      <<11680800, 92556600, 11680797, 92556597, 224400537>>,
      <<11680800, 92556600, 11680797, 92556599, 198078248>>,
      <<11680800, 92556600, 11680797, 92556601, 161921751>>,
      <<11680800, 92556600, 11680797, 92556603, 135599462>>,
      <<11680800, 92556600, 11680797, 92556605, 121495315>>,
      <<11680800, 92556600, 11680799, 92556595, 258457249>>,
      <<11680800, 92556600, 11680799, 92556597, 251202329>>,
      <<11680800, 92556600, 11680799, 92556599, 224400536>>,
      <<11680800, 92556600, 11680799, 92556601, 135599463>>,
      <<11680800, 92556600, 11680799, 92556602, 117047657>>,
      <<11680800, 92556600, 11680799, 92556603, 108797670>>,
      <<11680800, 92556600, 11680799, 92556605, 101542750>>,
      <<11680800, 92556600, 11680801, 92556595, 281542751>>,
      <<11680800, 92556600, 11680801, 92556597, 288797671>>,
      <<11680800, 92556600, 11680801, 92556599, 315599462>>,
      <<11680800, 92556600, 11680801, 92556601, 44400536>>,
      <<11680800, 92556600, 11680801, 92556603, 71202328>>,
      <<11680800, 92556600, 11680801, 92556605, 78457248>>,
      <<11680800, 92556600, 11680802, 92556599, 333911533>>,
      <<11680800, 92556600, 11680802, 92556602, 44400536>>,
      <<11680800, 92556600, 11680803, 92556595, 301495316>>,
      <<11680800, 92556600, 11680803, 92556597, 315599463>>,
      <<11680800, 92556600, 11680803, 92556599, 341921751>>,
      <<11680800, 92556600, 11680803, 92556601, 18078247>>,
      <<11680800, 92556600, 11680803, 92556603, 44400536>>,
      <<11680800, 92556600, 11680803, 92556605, 58504683>>,
      <<11680800, 92556600, 11680805, 92556597, 329562594>>,
      <<11680800, 92556600, 11680805, 92556599, 348918431>>,
      <<11680800, 92556600, 11680805, 92556601, 11081567>>,
      <<11680800, 92556600, 11680805, 92556603, 30437405>>,
      <<11680800, 92556600, 11688800, 92555600, 353021268>> }

calculate_bearing(lat1, lon1, lat2, lon2) ==
    (CHOOSE e \in BearingTable :
        e[1] = lat1 /\ e[2] = lon1 /\ e[3] = lat2 /\ e[4] = lon2)[5]

\* calculate_distance_nm(lat1, lon1, lat2, lon2), in micro nautical miles,
\* evaluated by the source on the coordinate pairs of this model.
DistanceTable ==
    { <<11623400, 92726500, 11622400, 92725500, 84044>>,
      <<11623400, 92726500, 11622400, 92734500, 474290>>,
      <<11623400, 92726500, 11623399, 92726499, 84>>,
      <<11623400, 92726500, 11623399, 92726502, 132>>,
      <<11623400, 92726500, 11623402, 92726499, 134>>,
      <<11623400, 92726500, 11623402, 92726502, 168>>,
      <<11623400, 92726500, 11631400, 92725500, 483910>>,
      <<11623400, 92726500, 11679800, 92555600, 10604662>>,
      <<11623400, 92726500, 11679800, 92564600, 10104553>>,
      <<11623400, 92726500, 11680799, 92556599, 10568400>>,
      <<11623400, 92726500, 11680799, 92556602, 10568233>>,
      <<11623400, 92726500, 11680802, 92556599, 10568458>>,
      <<11623400, 92726500, 11680802, 92556602, 10568291>>,
      <<11623400, 92726500, 11688800, 92555600, 10789218>>,
      <<11668900, 92591600, 11622400, 92725500, 8354237>>,
      <<11668900, 92591600, 11622400, 92734500, 8854816>>,
      <<11668900, 92591600, 11623399, 92726499, 8389893>>,
      <<11668900, 92591600, 11623399, 92726502, 8390060>>,
      <<11668900, 92591600, 11623402, 92726499, 8389834>>,
      <<11668900, 92591600, 11623402, 92726502, 8390001>>,
      <<11668900, 92591600, 11631400, 92725500, 8189383>>,
      <<11668900, 92591600, 11679800, 92555600, 2215603>>,
      <<11668900, 92591600, 11679800, 92564600, 1717158>>,
      <<11668900, 92591600, 11680799, 92556599, 2178477>>,
      <<11668900, 92591600, 11680799, 92556602, 2178311>>,
      <<11668900, 92591600, 11680802, 92556599, 2178536>>,
      <<11668900, 92591600, 11680802, 92556602, 2178370>>,
      <<11668900, 92591600, 11688800, 92555600, 2430641>>,
      <<11680800, 92556600, 11679800, 92555600, 84035>>,
      <<11680800, 92556600, 11679800, 92564600, 474194>>,
      <<11680800, 92556600, 11680799, 92556599, 84>>,
      <<11680800, 92556600, 11680799, 92556602, 132>>,
      <<11680800, 92556600, 11680802, 92556599, 134>>,
      <<11680800, 92556600, 11680802, 92556602, 168>>,
      <<11680800, 92556600, 11688800, 92555600, 483909>> }

calculate_distance_nm(lat1, lon1, lat2, lon2) ==
    (CHOOSE e \in DistanceTable :
        e[1] = lat1 /\ e[2] = lon1 /\ e[3] = lat2 /\ e[4] = lon2)[5]

\* A bug _is_in_sector could have: a sector through north is tested like one
\* that does not wrap.
_is_in_sector_no_wrap(point_lat, point_lon, center_lat, center_lon, min_bearing, max_bearing) ==
    LET bearing_to_point ==
            calculate_bearing(center_lat, center_lon, point_lat, point_lon) IN
    min_bearing <= bearing_to_point /\ bearing_to_point <= max_bearing

\* _is_in_sector
_is_in_sector(point_lat, point_lon, center_lat, center_lon, min_bearing, max_bearing) ==
    LET bearing_to_point ==
            calculate_bearing(center_lat, center_lon, point_lat, point_lon) IN
    IF min_bearing > max_bearing
    THEN bearing_to_point >= min_bearing \/ bearing_to_point <= max_bearing
    ELSE min_bearing <= bearing_to_point /\ bearing_to_point <= max_bearing

\* nm * 1.0 / 60.0: micro nautical miles to micro-degrees.
NmToDeg(nm) == nm \div 60

\* The values lo, lo + step, ... that are <= hi, in order (step > 0).
RECURSIVE Steps(_, _, _)
Steps(lo, hi, step) ==
    IF lo > hi THEN <<>> ELSE <<lo>> \o Steps(lo + step, hi, step)

\* The lattice of generate_grid_points in the order of its two loops: lat
\* outermost, lon innermost.
Lattice(center_lat, center_lon, radius_deg, spacing_deg) ==
    LET lats == Steps(center_lat - radius_deg, center_lat + radius_deg, spacing_deg)
        lons == Steps(center_lon - radius_deg, center_lon + radius_deg, spacing_deg)
    IN  [n \in 1..(Len(lats) * Len(lons)) |->
            [lat |-> lats[((n - 1) \div Len(lons)) + 1],
             lon |-> lons[((n - 1) % Len(lons)) + 1]]]

\* distance <= radius_deg, on the squares: sqrt is monotone.
WithinRadius(p, center_lat, center_lon, radius_deg) ==
    (p.lat - center_lat) * (p.lat - center_lat)
        + (p.lon - center_lon) * (p.lon - center_lon) <= radius_deg * radius_deg

\* generate_grid_points(center_lat, center_lon, radius_nm, grid_spacing_nm)
\* of a collector whose inputs hold the sector bounds.
generate_grid_points(center_lat, center_lon, radius_nm, grid_spacing_nm, min_sector, max_sector) ==
    LET radius_deg == NmToDeg(radius_nm)
        spacing_deg == NmToDeg(grid_spacing_nm)
        Keep(p) ==
            /\ WithinRadius(p, center_lat, center_lon, radius_deg)
            /\ _is_in_sector(p.lat, p.lon, center_lat, center_lon,
                             min_sector, max_sector)
        lattice == Lattice(center_lat, center_lon, radius_deg, spacing_deg)
        points[n \in 0..Len(lattice)] ==
            IF n = 0 THEN <<>>
            ELSE IF Keep(lattice[n]) THEN Append(points[n - 1], lattice[n])
                 ELSE points[n - 1]
    IN  points[Len(lattice)]

\* A bug get_regional_weather could have: the longitude offsets come first.
WeatherOffsetsLonFirst ==
    << <<0, 0>>, <<0, 500000>>, <<0, -500000>>, <<500000, 0>>, <<-500000, 0>> >>

\* The offsets get_regional_weather tries, in micro-degrees.
WeatherOffsets ==
    << <<0, 0>>, <<500000, 0>>, <<-500000, 0>>, <<0, 500000>>, <<0, -500000>> >>

\* The 'current' block of a forecast, and the conservative defaults.
Weather(wind, precip, cloud, vis) ==
    [wind_speed_10m |-> wind, precipitation |-> precip,
     cloud_cover |-> cloud, visibility |-> vis]
DefaultWeather == Weather(Num(15), Num(0), Num(40), Num(10000))

\* CollectorStats
CollectorStats(ocean, land, total, sources) ==
    [ocean_points |-> ocean, land_points |-> land, total_points |-> total,
     bathy_sources |-> sources]

EmptySources == [s \in {} |-> 0]

\* A bug collect could have: a source seen before is not counted again.
CountSourceFirstOnly(sources, source) ==
    [s \in DOMAIN sources \cup {source} |->
        IF s \in DOMAIN sources THEN sources[s] ELSE 1]

\* bathy_sources[source] = bathy_sources.get(source, 0) + 1
CountSource(sources, source) ==
    [s \in DOMAIN sources \cup {source} |->
        (IF s \in DOMAIN sources THEN sources[s] ELSE 0)
            + (IF s = source THEN 1 ELSE 0)]

(***************************************************************************)
(* Exact arithmetic for the scores: a rational is <<numerator,             *)
(* denominator>> in lowest terms with a positive denominator.              *)
(***************************************************************************)
RECURSIVE GCD(_, _)
GCD(a, b) == IF b = 0 THEN a ELSE GCD(b, a % b)

R(n, d) ==
    LET g == GCD(Abs(n), Abs(d))
        sgn == IF d < 0 THEN -1 ELSE 1
    IN  <<(sgn * n) \div g, (sgn * d) \div g>>

RInt(k) == <<k, 1>>
RAdd(x, y) == R(x[1] * y[2] + y[1] * x[2], x[2] * y[2])
RSub(x, y) == R(x[1] * y[2] - y[1] * x[2], x[2] * y[2])
RMul(x, y) == R(x[1] * y[1], x[2] * y[2])

\* x < y, comparing the integer parts first so that no product overflows.
RLt(x, y) ==
    LET fx == x[1] \div x[2]
        fy == y[1] \div y[2]
    IN  IF fx # fy THEN fx < fy
        ELSE (x[1] - fx * x[2]) * y[2] < (y[1] - fy * y[2]) * x[2]
RLe(x, y) == ~RLt(y, x)
RMin(x, y) == IF RLt(y, x) THEN y ELSE x
RMax(x, y) == IF RLt(x, y) THEN y ELSE x

\* round(float(x), 1) in tenths: the nearest tenth, a tie going to the even
\* one.  (Python rounds the binary value of the float, which for a decimal
\* tie may lie on either side; exact arithmetic has no such error.)
Round1(x) ==
    LET n == 10 * x[1]
        q == n \div x[2]
        r == n - q * x[2]
    IN  IF 2 * r < x[2] THEN q
        ELSE IF 2 * r > x[2] THEN q + 1
        ELSE IF q % 2 = 0 THEN q ELSE q + 1

\* max(0.0, min(100.0, score))
Clamp(score) == RMax(RInt(0), RMin(RInt(100), score))

(***************************************************************************)
(* naval_ops/analyzer.py                                                   *)
(***************************************************************************)
\* DEFAULT_GUN_RANGE_NM = 13.0
DEFAULT_GUN_RANGE_NM == 13

\* A value returned, or an exception raised.
Ok(v) == [err |-> "", v |-> v]
Raise(e) == [err |-> e, v |-> Unset]

\* d.get(key, default) of a dict whose entries are numbers, None or missing.
Get(d, key, default) == IF d[key] = Missing THEN Num(default) ELSE d[key]

\* x or default
OrElse(x, default) ==
    IF x = None \/ x = Num(0) THEN Num(default) ELSE x

\* not d, for d a dict or None: None, or the dict without any key.
Falsy(d) == d = None \/ d = Missing \/ \A key \in DOMAIN d : d[key] = Missing

IMax(a, b) == IF a > b THEN a ELSE b

\* A bug score_weather could have: the score is returned without the clamp.
score_weather_unclamped(weather, th) ==
    IF Falsy(weather) THEN Ok(RInt(0))
    ELSE
    LET max_wind == Get(th, "max_wind_speed_kts", 25)
        min_vis_m == Get(th, "min_visibility_m", 5000)
        max_cloud == Get(th, "max_cloud_cover_pct", 75)
        wind == Get(weather, "wind_speed_10m", 0)
        vis == Get(weather, "visibility", 0)
        cloud == Get(weather, "cloud_cover", 0)
        precip == Get(weather, "precipitation", 0)
    IN  IF None \in {max_wind, min_vis_m, max_cloud, wind, vis, cloud, precip}
        THEN Raise("TypeError")
        ELSE IF wind.v > max_wind.v THEN Ok(RInt(0))
        ELSE IF vis.v < min_vis_m.v THEN Ok(RInt(0))
        ELSE IF max_wind.v = 0 THEN Raise("ZeroDivisionError")
        ELSE
        LET cloud_penalty ==
                IF cloud.v > max_cloud.v THEN RInt(40)
                ELSE R(cloud.v * 20, IMax(1, max_cloud.v))
            precip_penalty ==
                IF precip.v > 5 THEN RInt(30)
                ELSE IF precip.v > 0 THEN RInt(10) ELSE RInt(0)
            bonus == RMin(RInt(10),
                          R((vis.v - min_vis_m.v) * 10, IMax(1, min_vis_m.v)))
            score == RAdd(RSub(RSub(RSub(RInt(100), R(wind.v * 30, max_wind.v)),
                                    cloud_penalty),
                               precip_penalty),
                          bonus)
        IN  Ok(score)

\* score_weather(weather) under the thresholds th
score_weather(weather, th) ==
    IF Falsy(weather) THEN Ok(RInt(0))
    ELSE
    LET max_wind == Get(th, "max_wind_speed_kts", 25)
        min_vis_m == Get(th, "min_visibility_m", 5000)
        max_cloud == Get(th, "max_cloud_cover_pct", 75)
        wind == Get(weather, "wind_speed_10m", 0)
        vis == Get(weather, "visibility", 0)
        cloud == Get(weather, "cloud_cover", 0)
        precip == Get(weather, "precipitation", 0)
    IN  IF None \in {max_wind, min_vis_m, max_cloud, wind, vis, cloud, precip}
        THEN Raise("TypeError")
        ELSE IF wind.v > max_wind.v THEN Ok(RInt(0))
        ELSE IF vis.v < min_vis_m.v THEN Ok(RInt(0))
        ELSE IF max_wind.v = 0 THEN Raise("ZeroDivisionError")
        ELSE
        LET cloud_penalty ==
                IF cloud.v > max_cloud.v THEN RInt(40)
                ELSE R(cloud.v * 20, IMax(1, max_cloud.v))
            precip_penalty ==
                IF precip.v > 5 THEN RInt(30)
                ELSE IF precip.v > 0 THEN RInt(10) ELSE RInt(0)
            bonus == RMin(RInt(10),
                          R((vis.v - min_vis_m.v) * 10, IMax(1, min_vis_m.v)))
            score == RAdd(RSub(RSub(RSub(RInt(100), R(wind.v * 30, max_wind.v)),
                                    cloud_penalty),
                               precip_penalty),
                          bonus)
        IN  Ok(Clamp(score))

\* score_sea_state(marine) under the thresholds th
score_sea_state(marine_data, th) ==
    IF Falsy(marine_data) THEN Ok(RInt(50))
    ELSE
    LET max_wave == Get(th, "max_wave_height_ft", 6)
        wave == OrElse(Get(marine_data, "wave_height", 0), 0)
        swell == OrElse(Get(marine_data, "swell_wave_height", 0), 0)
        current == OrElse(Get(marine_data, "ocean_current_velocity", 0), 0)
    IN  IF max_wave = None THEN Raise("TypeError")
        ELSE IF wave.v > max_wave.v THEN Ok(RInt(0))
        ELSE IF max_wave.v = 0 THEN Raise("ZeroDivisionError")
        ELSE
        LET swell_penalty ==
                IF swell.v > 6 THEN RInt(20)
                ELSE IF swell.v > 3 THEN RInt(10) ELSE RInt(0)
            current_penalty == IF current.v > 2 THEN RInt(15) ELSE RInt(0)
            score == RSub(RSub(RSub(RInt(100), R(wave.v * 40, max_wave.v)),
                               swell_penalty),
                          current_penalty)
        IN  Ok(Clamp(score))

\* A vessel of the formation.
Vessel(min_depth_ft, has_flight_deck, has_5_inch_gun) ==
    [min_depth_ft |-> min_depth_ft, has_flight_deck |-> has_flight_deck,
     has_5_inch_gun |-> has_5_inch_gun]

\* max(float(v.get("min_depth_ft", 20) or 20) for v in vessels) if vessels else 20.0
MinDepthRequired(vessels) ==
    IF vessels = <<>> THEN 20
    ELSE LET req == {OrElse(Get(vessels[n], "min_depth_ft", 20), 20).v :
                        n \in DOMAIN vessels}
         IN  CHOOSE m \in req : \A o \in req : o <= m

\* float(bathy.get("depth_ft", 0) or 0), in feet
DepthFt(bathy) == R(bathy.depth_ft, FT_UNIT)

\* score_depth(bathy, vessels)
score_depth(bathy, vessels) ==
    IF bathy = None \/ bathy = Missing THEN Ok(RInt(50))
    ELSE IF ~bathy.is_ocean THEN Ok(RInt(0))
    ELSE
    LET depth_ft == DepthFt(bathy)
        min_depth_required == RInt(MinDepthRequired(vessels))
    IN  IF RLt(depth_ft, min_depth_required) THEN Ok(RInt(0))
        ELSE IF RLe(min_depth_required, depth_ft) /\ RLe(depth_ft, RInt(300))
        THEN Ok(RInt(100))
        ELSE IF RLt(RInt(300), depth_ft) THEN Ok(RInt(80))
        ELSE Ok(Clamp(RMul(depth_ft, RInt(2))))

\* A bug score_flight_ops could have: a wind of exactly 10 kts counts as calm.
score_flight_ops_calm_at_ten(weather, marine_data, vessels) ==
    IF ~(\E n \in DOMAIN vessels : vessels[n].has_flight_deck) THEN Ok(RInt(0))
    ELSE IF Falsy(weather) \/ Falsy(marine_data) THEN Ok(RInt(0))
    ELSE
    LET wind == OrElse(Get(weather, "wind_speed_10m", 0), 0).v
        vis == OrElse(Get(weather, "visibility", 0), 0).v
        cloud == OrElse(Get(weather, "cloud_cover", 0), 0).v
        precip == OrElse(Get(weather, "precipitation", 0), 0).v
        wave == OrElse(Get(marine_data, "wave_height", 0), 0).v
    IN  IF wind > 35 THEN Ok(RInt(0))
        ELSE IF vis < 3000 THEN Ok(RInt(0))
        ELSE Ok(Clamp(RInt(100
                - (IF wind <= 10 THEN 20 ELSE IF wind <= 25 THEN 0 ELSE 30)
                - (IF vis < 5000 THEN 30 ELSE 0)
                - (IF cloud > 80 THEN 30 ELSE IF cloud > 50 THEN 15 ELSE 0)
                - (IF wave > 6 THEN 40 ELSE IF wave > 4 THEN 20 ELSE 0)
                - (IF precip > 2 THEN 40 ELSE IF precip > 0 THEN 20 ELSE 0))))

\* score_flight_ops(weather, marine, vessels)
score_flight_ops(weather, marine_data, vessels) ==
    IF ~(\E n \in DOMAIN vessels : vessels[n].has_flight_deck) THEN Ok(RInt(0))
    ELSE IF Falsy(weather) \/ Falsy(marine_data) THEN Ok(RInt(0))
    ELSE
    LET wind == OrElse(Get(weather, "wind_speed_10m", 0), 0).v
        vis == OrElse(Get(weather, "visibility", 0), 0).v
        cloud == OrElse(Get(weather, "cloud_cover", 0), 0).v
        precip == OrElse(Get(weather, "precipitation", 0), 0).v
        wave == OrElse(Get(marine_data, "wave_height", 0), 0).v
    IN  IF wind > 35 THEN Ok(RInt(0))
        ELSE IF vis < 3000 THEN Ok(RInt(0))
        ELSE Ok(Clamp(RInt(100
                - (IF wind < 10 THEN 20 ELSE IF wind <= 25 THEN 0 ELSE 30)
                - (IF vis < 5000 THEN 30 ELSE 0)
                - (IF cloud > 80 THEN 30 ELSE IF cloud > 50 THEN 15 ELSE 0)
                - (IF wave > 6 THEN 40 ELSE IF wave > 4 THEN 20 ELSE 0)
                - (IF precip > 2 THEN 40 ELSE IF precip > 0 THEN 20 ELSE 0))))

\* _max_gun_range_nm(vessels)
_max_gun_range_nm(vessels) ==
    IF \E n \in DOMAIN vessels : vessels[n].has_5_inch_gun
    THEN DEFAULT_GUN_RANGE_NM ELSE 0

\* float(point.get("distance_from_target_nm", 1e9) or 1e9), in nautical miles
TargetDistance(point) ==
    LET d == point.distance_from_target_nm
    IN  IF d = Missing \/ d = None \/ d = Num(0) THEN RInt(1000000000)
        ELSE R(d.v, 1000000)

\* A bug score_fire_support could have: the target is not looked at, and a
\* point without a target distance is out of range.
score_fire_support_target_unchecked(point, vessels, d) ==
    LET max_gun == _max_gun_range_nm(vessels) IN
    IF max_gun <= 0 THEN Ok(RInt(0))
    ELSE
    LET dist == TargetDistance(point)
        in_range == RLe(dist, RInt(max_gun))
        score == IF RLe(dist, R(max_gun * 7, 10)) THEN 100 ELSE 80
    IN  IF ~in_range THEN Ok(RInt(0))
        ELSE IF point.bathymetry = None THEN Raise("AttributeError")
        ELSE IF point.bathymetry = Missing THEN Ok(Clamp(RInt(score - 40)))
        ELSE IF RLt(DepthFt(point.bathymetry), RInt(30))
             THEN Ok(Clamp(RInt(score - 40)))
             ELSE Ok(Clamp(RInt(score)))

\* score_fire_support(point, vessels) of an analyzer whose data is d
score_fire_support(point, vessels, d) ==
    LET max_gun == _max_gun_range_nm(vessels) IN
    IF max_gun <= 0 THEN Ok(RInt(0))
    ELSE IF ~d.target.found THEN Ok(RInt(70))
    ELSE
    LET dist == TargetDistance(point)
        in_range == RLe(dist, RInt(max_gun))
        score == IF RLe(dist, R(max_gun * 7, 10)) THEN 100 ELSE 80
    IN  IF ~in_range THEN Ok(RInt(0))
        ELSE IF point.bathymetry = None THEN Raise("AttributeError")
        ELSE IF point.bathymetry = Missing THEN Ok(Clamp(RInt(score - 40)))
        ELSE IF RLt(DepthFt(point.bathymetry), RInt(30))
             THEN Ok(Clamp(RInt(score - 40)))
             ELSE Ok(Clamp(RInt(score)))

\* score_distance_constraints(point) of an analyzer whose inputs are inp
score_distance_constraints(point, inp) ==
    LET dist == R(OrElse(Get(point, "distance_from_center_nm", 0), 0).v, 1000000)
        min_dist == RInt(OrElse(Get(inp, "min_distance_shore_nm", 5), 5).v)
        max_dist == RInt(OrElse(Get(inp, "max_distance_shore_nm", 50), 50).v)
    IN  IF RLt(dist, min_dist) \/ RLt(max_dist, dist) THEN Ok(RInt(20))
        ELSE Ok(RInt(100))

\* A weight vector, in hundredths.
Weights(weather, sea_state, depth, flight_ops, fire_support, distance) ==
    [weather |-> weather, sea_state |-> sea_state, depth |-> depth,
     flight_ops |-> flight_ops, fire_support |-> fire_support,
     distance |-> distance]

\* A bug _weights_for_mission could have: a vector edited on one side only.
_weights_for_mission_edited(mission) ==
    IF mission = "amphibious_landing" THEN Weights(15, 25, 15, 20, 15, 10)
    ELSE IF mission = "naval_gunfire_support" THEN Weights(15, 15, 15, 5, 40, 10)
    ELSE IF mission = "flight_operations" THEN Weights(20, 25, 15, 30, 5, 5)
    ELSE Weights(20, 20, 15, 15, 25, 10)

\* _weights_for_mission(mission)
_weights_for_mission(mission) ==
    IF mission = "amphibious_landing" THEN Weights(15, 25, 15, 20, 15, 10)
    ELSE IF mission = "naval_gunfire_support" THEN Weights(15, 15, 15, 5, 40, 10)
    ELSE IF mission = "flight_operations" THEN Weights(20, 25, 15, 30, 5, 5)
    ELSE Weights(20, 20, 15, 15, 20, 10)

\* ScoreBreakdown, rounded to one decimal: in tenths.
ScoreBreakdown(overall, weather, sea_state, depth, flight_ops, fire_support, distance) ==
    [overall |-> Round1(overall), weather |-> Round1(weather),
     sea_state |-> Round1(sea_state), depth |-> Round1(depth),
     flight_ops |-> Round1(flight_ops), fire_support |-> Round1(fire_support),
     distance |-> Round1(distance)]

\* calculate_scores(point) of an analyzer with inputs inp and data d: the
\* breakdown and the weights used, or the exception of the first sub-score
\* that raises.
calculate_scores(point, inp, d) ==
    LET vessels == inp.vessels
        th == inp.weather_thresholds
        weather == score_weather(point.weather, th)
        sea == score_sea_state(point.marine, th)
        depth == score_depth(point.bathymetry, vessels)
        flight == score_flight_ops(point.weather, point.marine, vessels)
        fire == score_fire_support(point, vessels, d)
        dist == score_distance_constraints(point, inp)
        subs == <<weather, sea, depth, flight, fire, dist>>
    IN  IF \E n \in 1..6 : subs[n].err # ""
        THEN Raise(subs[CHOOSE n \in 1..6 :
                            subs[n].err # "" /\ \A l \in 1..(n - 1) : subs[l].err = ""].err)
        ELSE
        LET w == _weights_for_mission(inp.primary_mission)
            Term(x, weight) == RMul(x.v, R(weight, 100))
            overall ==
                RAdd(RAdd(RAdd(RAdd(RAdd(Term(weather, w.weather),
                                         Term(sea, w.sea_state)),
                                    Term(depth, w.depth)),
                               Term(flight, w.flight_ops)),
                          Term(fire, w.fire_support)),
                     Term(dist, w.distance))
        IN  Ok([scores |-> ScoreBreakdown(overall, weather.v, sea.v, depth.v,
                                          flight.v, fire.v, dist.v),
                weights |-> w])

\* p.get(key) of an entry x of p: None for a missing key.
GetOrNone(x) == IF x = Missing THEN None ELSE x

\* The record analyze appends for point p; input_index, which the code does
\* not store, remembers that p is the n-th point of the input.
Scored(p, n, scores) ==
    [lat |-> p.lat, lon |-> p.lon, scores |-> scores,
     weather |-> GetOrNone(p.weather), marine |-> GetOrNone(p.marine),
     bathymetry |-> GetOrNone(p.bathymetry),
     distance_from_center_nm |-> GetOrNone(p.distance_from_center_nm),
     distance_from_target_nm |-> GetOrNone(p.distance_from_target_nm),
     input_index |-> n]

\* A bug analyze could have: a record is put before the records of equal
\* overall, as sorting ascending and reversing does.
InsertByOverallBeforeEqual(sorted, x) ==
    LET before == {n \in DOMAIN sorted :
                       sorted[n].scores.overall > x.scores.overall}
        k == Cardinality(before)
    IN  SubSeq(sorted, 1, k) \o <<x>> \o SubSeq(sorted, k + 1, Len(sorted))

\* One step of scored.sort(key=overall, reverse=True): x, which comes after
\* the records of sorted in the list, goes behind every record whose overall
\* is greater or equal.
InsertByOverall(sorted, x) ==
    LET before == {n \in DOMAIN sorted :
                       sorted[n].scores.overall >= x.scores.overall}
        k == Cardinality(before)
    IN  SubSeq(sorted, 1, k) \o <<x>> \o SubSeq(sorted, k + 1, Len(sorted))

\* scored.sort(key=lambda x: x["scores"]["overall"], reverse=True)
SortByOverall(scored_list) ==
    LET sorted[n \in 0..Len(scored_list)] ==
            IF n = 0 THEN <<>> ELSE InsertByOverall(sorted[n - 1], scored_list[n])
    IN  sorted[Len(scored_list)]

\* The for loop of analyze from the n-th point on: scored_list holds the
\* records appended so far and w the weights the last calculate_scores used.
\* The loop ends in the sort, or in the exception calculate_scores raises.
RECURSIVE AnalyzeLoop(_, _, _, _, _)
AnalyzeLoop(inp, d, n, scored_list, w) ==
    IF n > Len(d.analyzed_points)
    THEN Ok([scored |-> SortByOverall(scored_list), weights |-> w])
    ELSE LET p == d.analyzed_points[n]
             r == calculate_scores(p, inp, d)
         IN  IF r.err # "" THEN Raise(r.err)
             ELSE AnalyzeLoop(inp, d, n + 1,
                              Append(scored_list, Scored(p, n, r.v.scores)),
                              r.v.weights)

\* analyze() of an analyzer with inputs inp and data d: the sorted list and
\* the weights the last calculate_scores used, or the exception raised.
analyze(inp, d) == AnalyzeLoop(inp, d, 1, <<>>, Unset)

(***************************************************************************)
(* State                                                                   *)
(***************************************************************************)
VARIABLES
    cache,            \* BathymetryService._cache
    bathy_calls,      \* the direct get_bathymetry calls made so far, in order
    inputs,           \* NavalDataCollector.inputs
    pc,               \* where collect is
    center,           \* collect: center
    target,           \* collect: data['target'], NoPlace while absent
    region_weather,   \* collect: region_weather
    attempt,          \* get_regional_weather: index of the next offset
    grid_points,      \* collect: grid_points
    i,                \* collect: the loop index i
    marine,           \* collect: marine of the point being processed
    stats,            \* collect: stats
    analyzed_points,  \* collect: analyzed_points
    trace,            \* the requests made and the progress reports, in order
    data,             \* what collect returned
    a_inputs,         \* NavalOperationsAnalyzer.inputs
    a_data,           \* NavalOperationsAnalyzer.data
    a_pc,             \* where analyze is: "ready", "returned" or "raised"
    scored_points,    \* NavalOperationsAnalyzer.scored_points
    raised,           \* the exception analyze raised, "" if none
    weights,          \* what the last _weights_for_mission call returned
    fn_call,          \* a function called on its own: its arguments
    fn_ret            \* what that call returned or raised

bathy_vars == <<cache, bathy_calls>>

collect_vars ==
    <<inputs, pc, center, target, region_weather, attempt, grid_points, i,
      marine, stats, analyzed_points, trace, data>>

analyzer_vars == <<a_inputs, a_data, a_pc, scored_points, raised, weights>>

call_vars == <<fn_call, fn_ret>>

vars == <<cache, bathy_calls, inputs, pc, center, target, region_weather,
          attempt, grid_points, i, marine, stats, analyzed_points, trace, data,
          a_inputs, a_data, a_pc, scored_points, raised, weights,
          fn_call, fn_ret>>

EmptyCache == [k \in {} |-> FallbackEstimate]

\* No collector: the state of the collector's variables in the
\* specifications that have none.
NoCollector ==
    /\ inputs = Unset
    /\ pc = "none"
    /\ center = NoPlace
    /\ target = NoPlace
    /\ region_weather = Unset
    /\ attempt = 0
    /\ grid_points = <<>>
    /\ i = 0
    /\ marine = Unset
    /\ stats = Unset
    /\ analyzed_points = <<>>
    /\ trace = <<>>
    /\ data = Unset

\* No analyzer: the state of the analyzer's variables in the
\* specifications that have none.
NoAnalyzer ==
    /\ a_inputs = Unset
    /\ a_data = Unset
    /\ a_pc = "none"
    /\ scored_points = <<>>
    /\ raised = ""
    /\ weights = Unset

\* fn_ret while the call has not returned.
NotReturned == [err |-> "pending", v |-> Unset]

\* The call has returned, or raised.
Returned == fn_ret.err # "pending"

\* No function is called on its own.
NoCall ==
    /\ fn_call = Unset
    /\ fn_ret = NotReturned

(***************************************************************************)
(* The bathymetry service called directly                                  *)
(***************************************************************************)
\* The coordinates of the direct calls, in micro-degrees: 2 and 3 print as
\* "0.00000", -3 as "-0.00000", 14 as "0.00001".
CallCoords == {-3, 2, 3, 14}

\* The request field of a call that made none.
NotRequested == [kind |-> "not_requested", elev |-> 0]

\* BathymetryService(): an empty cache.
InitBathy ==
    /\ cache = EmptyCache
    /\ bathy_calls = <<>>
    /\ NoCollector
    /\ NoAnalyzer
    /\ NoCall

\* A caller invokes get_bathymetry(lat, lon).
GetBathymetry(lat, lon, outcome) ==
    /\ Len(bathy_calls) < MaxCalls
    /\ LET r == get_bathymetry(cache, lat, lon, outcome) IN
        /\ cache' = r.cache
        /\ bathy_calls' = Append(bathy_calls,
               [lat |-> lat, lon |-> lon, requested |-> r.requested,
                outcome |-> IF r.requested THEN outcome ELSE NotRequested,
                ret |-> r.ret, before |-> cache])
    /\ UNCHANGED <<collect_vars, analyzer_vars, call_vars>>

NextBathy ==
    \E lat \in CallCoords, lon \in {2}, outcome \in BathyFetchOutcomes :
        GetBathymetry(lat, lon, outcome)

SpecBathy == InitBathy /\ [][NextBathy]_vars

(***************************************************************************)
(* Properties of the bathymetry service                                    *)
(***************************************************************************)
\* C8: get_bathymetry returns for every request outcome, and what it returns
\* after a request is decided by the outcome: a negative elevation gives
\* ocean at depth |elevation|, not estimated; an elevation of 0 or more gives
\* land at depth 0, not estimated; a failure gives the fallback estimate of
\* 50 m, 164.042 ft, ocean, estimated.
C8_ResultFromFetch ==
    /\ Len(bathy_calls) < MaxCalls =>
        \A lat \in CallCoords, o \in BathyFetchOutcomes : ENABLED GetBathymetry(lat, 2, o)
    /\ \A k \in DOMAIN bathy_calls :
        LET call == bathy_calls[k] IN
        call.requested =>
            IF call.outcome.kind = "elevation" /\ call.outcome.elev < 0
            THEN /\ call.ret.is_ocean
                 /\ call.ret.depth_m = -call.outcome.elev
                 /\ ~call.ret.estimated
            ELSE IF call.outcome.kind = "elevation"
            THEN /\ ~call.ret.is_ocean
                 /\ call.ret.depth_m = 0
                 /\ call.ret.depth_ft = 0
                 /\ ~call.ret.estimated
            ELSE /\ call.ret.depth_m = 50
                 /\ call.ret.depth_ft = 16404200
                 /\ call.ret.is_ocean
                 /\ call.ret.estimated
                 /\ call.ret.source = "Fallback estimate"

\* Three calls whose requests returned an elevation of exactly 0, a NaN
\* elevation and a negative elevation.
C8_Witness ==
    /\ \E k \in DOMAIN bathy_calls :
        /\ bathy_calls[k].outcome = FetchElevation(0)
        /\ ~bathy_calls[k].ret.is_ocean
    /\ \E k \in DOMAIN bathy_calls : bathy_calls[k].outcome = FetchNaN
    /\ \E k \in DOMAIN bathy_calls :
        /\ bathy_calls[k].outcome = FetchElevation(-100)
        /\ bathy_calls[k].ret.depth_m = 100

\* round(x, 5) of a coordinate as a number, in units of 1e-5 degree: -0.0
\* and 0.0 are the same number.
Round5(x) == IF x < 0 THEN -((Abs(x) + 5) \div 10) ELSE (x + 5) \div 10

\* The first call at the coordinate that call n's coordinate rounds to.
FirstAtRounded(n) ==
    CHOOSE m \in 1..n :
        /\ Round5(bathy_calls[m].lat) = Round5(bathy_calls[n].lat)
        /\ Round5(bathy_calls[m].lon) = Round5(bathy_calls[n].lon)
        /\ \A l \in 1..(m - 1) :
            \/ Round5(bathy_calls[l].lat) # Round5(bathy_calls[n].lat)
            \/ Round5(bathy_calls[l].lon) # Round5(bathy_calls[n].lon)

\* C9: a call at a coordinate that rounds to 5 decimals to the coordinate of
\* an earlier call makes no request and returns what the first call there
\* returned; and no call changes or removes an entry the cache had.
C9_RoundedCoordinateIsCached ==
    \A n \in DOMAIN bathy_calls :
        /\ FirstAtRounded(n) < n =>
            /\ ~bathy_calls[n].requested
            /\ bathy_calls[n].ret = bathy_calls[FirstAtRounded(n)].ret
        /\ \A key \in DOMAIN bathy_calls[n].before :
            /\ key \in DOMAIN cache
            /\ cache[key] = bathy_calls[n].before[key]

\* The first call with the key that call n's coordinate formats to.
FirstAtKey(n) ==
    CHOOSE m \in 1..n :
        /\ CacheKey(bathy_calls[m].lat, bathy_calls[m].lon)
               = CacheKey(bathy_calls[n].lat, bathy_calls[n].lon)
        /\ \A l \in 1..(m - 1) :
            CacheKey(bathy_calls[l].lat, bathy_calls[l].lon)
                # CacheKey(bathy_calls[n].lat, bathy_calls[n].lon)

\* What the cache does give: the same for coordinates with the same
\* formatted key f"{lat:.5f},{lon:.5f}".
FormattedKeyIsCached ==
    \A n \in DOMAIN bathy_calls :
        /\ bathy_calls[n].requested <=> FirstAtKey(n) = n
        /\ bathy_calls[n].ret = bathy_calls[FirstAtKey(n)].ret
        /\ \A key \in DOMAIN bathy_calls[n].before :
            /\ key \in DOMAIN cache
            /\ cache[key] = bathy_calls[n].before[key]


(***************************************************************************)
(* NavalDataCollector.collect                                              *)
(***************************************************************************)
\* The inputs of the model.  The base case is the application's example;
\* Scenarios are the inputs that differ from it in at most two entries.
CenterText == LocCoords(116808, 925566)
TargetText == LocCoords(116689, 925916)

\* (radius_nm, grid_spacing_nm) in micro nautical miles: 0.6 and 0.54 nm
\* (three grid points), 0.00024 and 0.00018 nm (four grid points that share
\* one cache key), 0.6 and 1.2 nm (no grid point).
Geometries == {<<600000, 540000>>, <<240, 180>>, <<600000, 1200000>>}

\* (sector_min_bearing, sector_max_bearing) in micro-degrees: the defaults
\* 0 and 360, a sector that wraps, and one that does not.
Sectors == {<<0, 360000000>>, <<300000000, 60000000>>, <<90000000, 270000000>>}

Inputs(c, t, g, s, p) ==
    [center_location |-> c, target_location |-> t,
     radius_nm |-> g[1], grid_spacing_nm |-> g[2],
     sector_min_bearing |-> s[1], sector_max_bearing |-> s[2],
     progress |-> p]

BaseInputs ==
    Inputs(CenterText, TargetText, <<600000, 540000>>, <<0, 360000000>>, TRUE)

InputSpace ==
    {Inputs(c, t, g, s, p) :
        c \in {CenterText, LocName, LocNameComma, LocEmpty},
        t \in {TargetText, LocName, LocNameComma, LocEmpty},
        g \in Geometries, s \in Sectors, p \in BOOLEAN}

Differences(a, b) ==
    Cardinality({f \in {"center_location", "target_location", "sector_min_bearing",
                        "progress"} : a[f] # b[f]})
        + (IF a.radius_nm # b.radius_nm \/ a.grid_spacing_nm # b.grid_spacing_nm
           THEN 1 ELSE 0)

Scenarios == {x \in InputSpace : Differences(x, BaseInputs) <= 2}

\* The place the geocoding API knows.
PortBlair == GeoMatch(11623400, 92726500)
GeoOutcomes == {PortBlair, GeoNoResults, GeoError}

\* What a forecast or marine request can end in: the block asked for, a
\* payload without it, or an error.
ApiOk(block) == [kind |-> "ok", block |-> block]
ApiEmpty == [kind |-> "empty", block |-> Unset]
ApiError == [kind |-> "error", block |-> Unset]

Marine(wave, swell, current) ==
    [wave_height |-> wave, swell_wave_height |-> swell,
     ocean_current_velocity |-> current]

WeatherOutcomes ==
    {ApiOk(Weather(Num(12), Num(0), Num(30), Num(20000))), ApiEmpty, ApiError}
MarineOutcomes == {ApiOk(Marine(Num(3), Num(2), Num(1))), ApiEmpty, ApiError}
AstroOutcomes ==
    {ApiOk([sunrise |-> "06:00", sunset |-> "18:00"]), ApiEmpty, ApiError}

\* The bathymetry outcomes of the collector's runs: ocean, land and failure.
CollectBathyOutcomes == {FetchElevation(-100), FetchElevation(25), FetchNetworkError}

\* An entry of the trace: a request to an external service, or a call of
\* the progress callback.
Request(kind, lat, lon) == [ev |-> kind, a |-> lat, b |-> lon, stats |-> Unset]
Progress(done, total, st) == [ev |-> "progress", a |-> done, b |-> total, stats |-> st]

InitCollect ==
    /\ cache = EmptyCache
    /\ bathy_calls = <<>>
    /\ inputs \in Scenarios
    /\ pc = "geocode_center"
    /\ center = NoPlace
    /\ target = NoPlace
    /\ region_weather = Unset
    /\ attempt = 0
    /\ grid_points = <<>>
    /\ i = 0
    /\ marine = Unset
    /\ stats = Unset
    /\ analyzed_points = <<>>
    /\ trace = <<>>
    /\ data = Unset
    /\ NoAnalyzer
    /\ NoCall

\* The trace after geocode_location(loc) returned r.
Geocoded(tr, r) == IF r.requested THEN Append(tr, Request("geocode", 0, 0)) ELSE tr

\* A bug collect could have: the check of center is missing.
GeocodeCenterUnchecked(outcome) ==
    /\ pc = "geocode_center"
    /\ LET r == geocode_location(inputs.center_location, outcome) IN
        /\ center' = r.res
        /\ trace' = Geocoded(trace, r)
        /\ pc' = "geocode_target"
    /\ UNCHANGED <<inputs, target, region_weather, attempt, grid_points, i,
                   marine, stats, analyzed_points, data>>
    /\ UNCHANGED <<bathy_vars, analyzer_vars, call_vars>>

\* center = self.geocode_location(...); if not center: raise ValueError(...)
GeocodeCenter(outcome) ==
    /\ pc = "geocode_center"
    /\ LET r == geocode_location(inputs.center_location, outcome) IN
        /\ center' = r.res
        /\ trace' = Geocoded(trace, r)
        /\ pc' = IF r.res.found THEN "geocode_target" ELSE "raised"
    /\ UNCHANGED <<inputs, target, region_weather, attempt, grid_points, i,
                   marine, stats, analyzed_points, data>>
    /\ UNCHANGED <<bathy_vars, analyzer_vars, call_vars>>

\* if self.inputs.get('target_location'): target = ...; if target: data['target'] = target
GeocodeTarget(outcome) ==
    /\ pc = "geocode_target"
    /\ IF Truthy(inputs.target_location)
       THEN LET r == geocode_location(inputs.target_location, outcome) IN
            /\ target' = r.res
            /\ trace' = Geocoded(trace, r)
       ELSE UNCHANGED <<target, trace>>
    /\ pc' = "regional_weather"
    /\ UNCHANGED <<inputs, center, region_weather, attempt, grid_points, i,
                   marine, stats, analyzed_points, data>>
    /\ UNCHANGED <<bathy_vars, analyzer_vars, call_vars>>

\* One turn of the loop of get_regional_weather; after the last offset, the
\* conservative defaults.
RegionalWeatherAttempt(outcome) ==
    /\ pc = "regional_weather"
    /\ LET off == WeatherOffsets[attempt + 1] IN
        trace' = Append(trace, Request("weather", center.lat + off[1], center.lon + off[2]))
    /\ IF outcome.kind = "ok"
       THEN /\ region_weather' = outcome.block
            /\ pc' = "grid"
            /\ UNCHANGED attempt
       ELSE IF attempt + 1 < Len(WeatherOffsets)
            THEN /\ attempt' = attempt + 1
                 /\ UNCHANGED <<region_weather, pc>>
            ELSE /\ attempt' = attempt + 1
                 /\ region_weather' = DefaultWeather
                 /\ pc' = "grid"
    /\ UNCHANGED <<inputs, center, target, grid_points, i, marine, stats,
                   analyzed_points, data>>
    /\ UNCHANGED <<bathy_vars, analyzer_vars, call_vars>>

\* grid_points = self.generate_grid_points(...); stats = CollectorStats(...)
GenerateGrid ==
    /\ pc = "grid"
    /\ LET g == generate_grid_points(center.lat, center.lon, inputs.radius_nm,
                                     inputs.grid_spacing_nm,
                                     inputs.sector_min_bearing,
                                     inputs.sector_max_bearing) IN
        /\ grid_points' = g
        /\ stats' = CollectorStats(0, 0, Len(g), EmptySources)
        /\ pc' = IF Len(g) = 0 THEN "astro" ELSE "marine"
    /\ i' = 0
    /\ analyzed_points' = <<>>
    /\ UNCHANGED <<inputs, center, target, region_weather, attempt, marine,
                   trace, data>>
    /\ UNCHANGED <<bathy_vars, analyzer_vars, call_vars>>

\* A bug collect could have: get_marine_data lets the error of a failed
\* request through, which ends collect.
FetchMarineRaises(outcome) ==
    /\ pc = "marine"
    /\ LET point == grid_points[i + 1] IN
        trace' = Append(trace, Request("marine", point.lat, point.lon))
    /\ marine' = IF outcome.kind = "ok" THEN outcome.block ELSE None
    /\ pc' = IF outcome.kind = "error" THEN "raised" ELSE "bathymetry"
    /\ UNCHANGED <<inputs, center, target, region_weather, attempt, grid_points,
                   i, stats, analyzed_points, data>>
    /\ UNCHANGED <<bathy_vars, analyzer_vars, call_vars>>

\* marine = self.get_marine_data(point['lat'], point['lon'])
FetchMarine(outcome) ==
    /\ pc = "marine"
    /\ LET point == grid_points[i + 1] IN
        trace' = Append(trace, Request("marine", point.lat, point.lon))
    /\ marine' = IF outcome.kind = "ok" THEN outcome.block ELSE None
    /\ pc' = "bathymetry"
    /\ UNCHANGED <<inputs, center, target, region_weather, attempt, grid_points,
                   i, stats, analyzed_points, data>>
    /\ UNCHANGED <<bathy_vars, analyzer_vars, call_vars>>

\* A bug collect could have: no point is taken for land.
IsLandNever(bathy) == FALSE

\* not bathy.get('is_ocean', True)
IsLand(bathy) == ~bathy.is_ocean

\* A bug collect could have: the land branch skips the progress call.
LandProgressSkipped(tr, done, total, st) == tr

\* The progress call of the land branch.
LandProgress(tr, done, total, st) ==
    IF inputs.progress THEN Append(tr, Progress(done, total, st)) ELSE tr

\* The progress call of the ocean branch.
OceanProgress(tr, done, total, st) ==
    IF inputs.progress THEN Append(tr, Progress(done, total, st)) ELSE tr

\* point_data of collect
PointData(point, weather, mar, bathy, c, t) ==
    [lat |-> point.lat, lon |-> point.lon, weather |-> weather, marine |-> mar,
     bathymetry |-> bathy,
     distance_from_center_nm |->
         Num(calculate_distance_nm(c.lat, c.lon, point.lat, point.lon)),
     distance_from_target_nm |->
         IF t.found
         THEN Num(calculate_distance_nm(t.lat, t.lon, point.lat, point.lon))
         ELSE Missing]

\* The rest of the loop body: the bathymetry lookup, the statistics, the
\* land filter, the point's record and the progress report.
FetchBathymetry(outcome) ==
    /\ pc = "bathymetry"
    /\ LET point == grid_points[i + 1]
           r == get_bathymetry(cache, point.lat, point.lon, outcome)
           bathy == r.ret
           tr == IF r.requested
                 THEN Append(trace, Request("bathymetry", point.lat, point.lon))
                 ELSE trace
           sources == CountSource(stats.bathy_sources, bathy.source)
       IN
        /\ cache' = r.cache
        /\ IF IsLand(bathy)
           THEN LET st == CollectorStats(stats.ocean_points, stats.land_points + 1,
                                         stats.total_points, sources) IN
                /\ stats' = st
                /\ trace' = LandProgress(tr, i + 1, Len(grid_points), st)
                /\ UNCHANGED analyzed_points
           ELSE LET st == CollectorStats(stats.ocean_points + 1, stats.land_points,
                                         stats.total_points, sources) IN
                /\ stats' = st
                /\ analyzed_points' =
                       Append(analyzed_points,
                              PointData(point, region_weather, marine, bathy,
                                        center, target))
                /\ trace' = OceanProgress(tr, i + 1, Len(grid_points), st)
    /\ i' = i + 1
    /\ pc' = IF i + 1 = Len(grid_points) THEN "astro" ELSE "marine"
    /\ marine' = Unset
    /\ UNCHANGED <<inputs, center, target, region_weather, attempt, grid_points,
                   data, bathy_calls>>
    /\ UNCHANGED <<analyzer_vars, call_vars>>

\* astro = self.get_astronomical_data(...); data['metadata'] = ...; return data
FetchAstro(outcome) ==
    /\ pc = "astro"
    /\ trace' = Append(trace, Request("astro", center.lat, center.lon))
    /\ data' = [center |-> center, target |-> target, grid_points |-> grid_points,
                analyzed_points |-> analyzed_points,
                astronomical |-> IF outcome.kind = "ok" THEN outcome.block ELSE Missing,
                metadata |-> [points_total |-> stats.total_points,
                              points_ocean |-> stats.ocean_points,
                              points_land |-> stats.land_points,
                              bathymetry_sources |-> stats.bathy_sources]]
    /\ pc' = "done"
    /\ UNCHANGED <<inputs, center, target, region_weather, attempt, grid_points,
                   i, marine, stats, analyzed_points>>
    /\ UNCHANGED <<bathy_vars, analyzer_vars, call_vars>>

NextCollect ==
    \/ \E outcome \in GeoOutcomes : GeocodeCenter(outcome)
    \/ \E outcome \in GeoOutcomes : GeocodeTarget(outcome)
    \/ \E outcome \in WeatherOutcomes : RegionalWeatherAttempt(outcome)
    \/ GenerateGrid
    \/ \E outcome \in MarineOutcomes : FetchMarine(outcome)
    \/ \E outcome \in CollectBathyOutcomes : FetchBathymetry(outcome)
    \/ \E outcome \in AstroOutcomes : FetchAstro(outcome)

Spec == InitCollect /\ [][NextCollect]_vars

(***************************************************************************)
(* Properties of collect                                                   *)
(***************************************************************************)
\* The indices of the trace's entries of one kind, in order.
Positions(kind) ==
    LET pos[n \in 0..Len(trace)] ==
            IF n = 0 THEN <<>>
            ELSE IF trace[n].ev = kind THEN Append(pos[n - 1], n) ELSE pos[n - 1]
    IN  pos[Len(trace)]

\* C1: at every step of collect and in what it returns, every record of
\* analyzed_points has bathymetry.is_ocean = TRUE: a point whose bathymetry
\* is land is never appended.
C1_AnalyzedPointsAreOcean ==
    /\ \A k \in DOMAIN analyzed_points : analyzed_points[k].bathymetry.is_ocean
    /\ pc = "done" =>
        \A k \in DOMAIN data.analyzed_points :
            data.analyzed_points[k].bathymetry.is_ocean

\* A finished run that met land points and ocean points, one of them with
\* the fallback estimate.
C1_Witness ==
    /\ pc = "done"
    /\ stats.land_points > 0
    /\ \E k \in DOMAIN data.analyzed_points :
        data.analyzed_points[k].bathymetry.estimated
    /\ \E k \in DOMAIN data.analyzed_points :
        ~data.analyzed_points[k].bathymetry.estimated

\* How far collect is from its return: the position in the code, the
\* weather offsets left and the grid points left.
Remaining ==
    CASE pc = "geocode_center" -> 1000
      [] pc = "geocode_target" -> 900
      [] pc = "regional_weather" -> 800 + Len(WeatherOffsets) - attempt
      [] pc = "grid" -> 700
      [] pc = "marine" -> 2 + 2 * (Len(grid_points) - i)
      [] pc = "bathymetry" -> 1 + 2 * (Len(grid_points) - i)
      [] pc = "astro" -> 1
      [] OTHER -> 0

C2_StateInvariant ==
    /\ center.found => pc # "raised"
    /\ pc = "geocode_target" => \A o \in GeoOutcomes : ENABLED GeocodeTarget(o)
    /\ pc = "regional_weather" =>
        \A o \in WeatherOutcomes : ENABLED RegionalWeatherAttempt(o)
    /\ pc = "grid" => ENABLED GenerateGrid
    /\ pc = "marine" => \A o \in MarineOutcomes : ENABLED FetchMarine(o)
    /\ pc = "bathymetry" => \A o \in CollectBathyOutcomes : ENABLED FetchBathymetry(o)
    /\ pc = "astro" => \A o \in AstroOutcomes : ENABLED FetchAstro(o)
    /\ pc = "done" =>
        /\ data.analyzed_points = analyzed_points
        /\ data.metadata.points_total = Len(grid_points)

\* C2: once the center is resolved collect never raises; whatever a lookup
\* ends in (a match, no data, an error) collect has a next step for it, every
\* step brings it closer to its return, and it returns analyzed_points and
\* metadata.
C2_CollectCompletes ==
    /\ []C2_StateInvariant
    /\ [][Remaining' < Remaining]_vars

\* A run that returned although the target lookup, all five weather
\* requests, every marine and bathymetry request and the astronomical
\* request failed.
C2_Witness ==
    /\ pc = "done"
    /\ inputs.target_location = LocName
    /\ ~target.found
    /\ region_weather = DefaultWeather
    /\ data.astronomical = Missing
    /\ Len(data.analyzed_points) = 3
    /\ \A k \in DOMAIN data.analyzed_points :
        /\ data.analyzed_points[k].marine = None
        /\ data.analyzed_points[k].bathymetry = FallbackEstimate

\* C3: when the geocoder does not resolve the center, collect raises, and
\* up to there it made no weather, marine, bathymetry or astronomical
\* request, generated no grid and did not call the progress callback.
C3_UnresolvedCenterRaisesFirst ==
    /\ (pc # "geocode_center" /\ ~center.found) => pc = "raised"
    /\ pc = "raised" =>
        /\ ~center.found
        /\ \A k \in DOMAIN trace : trace[k].ev = "geocode"
        /\ grid_points = <<>>
        /\ stats = Unset
        /\ region_weather = Unset
        /\ data = Unset

\* The center is a name with a comma in it, the name lookup found nothing and
\* collect raised.
C3_Witness ==
    /\ pc = "raised"
    /\ inputs.center_location = LocNameComma
    /\ Len(trace) = 1

\* C10: with a progress callback, the reports made so far are one per
\* processed grid point, with done = 1, 2, ... and total = the number of grid
\* points; the k-th report comes after the requests of the k-th point and
\* before the first request of the next one; at the return there are as many
\* reports as grid points.
C10_ProgressOncePerPoint ==
    inputs.progress =>
        LET reports == Positions("progress")
            starts == Positions("marine")
        IN  /\ Len(reports) = (IF pc = "bathymetry" THEN Len(starts) - 1 ELSE Len(starts))
            /\ \A k \in DOMAIN reports :
                /\ trace[reports[k]].a = k
                /\ trace[reports[k]].b = Len(grid_points)
                /\ starts[k] < reports[k]
                /\ k < Len(starts) => reports[k] < starts[k + 1]
                /\ \A n \in (starts[k] + 1)..(reports[k] - 1) :
                    trace[n].ev = "bathymetry"
            /\ pc = "done" => Len(reports) = Len(grid_points)

\* A finished run over three grid points, land and ocean, with a callback.
C10_Witness ==
    /\ pc = "done"
    /\ inputs.progress
    /\ Len(grid_points) = 3
    /\ stats.land_points > 0
    /\ stats.ocean_points > 0
    /\ Len(Positions("progress")) = 3


(***************************************************************************)
(* The analyzer: NavalOperationsAnalyzer(inputs, data).analyze()           *)
(***************************************************************************)
\* The longest list of enriched points handed to the analyzer.
MaxPoints == 2

\* inputs['weather_thresholds']
Thresholds(max_wind, max_wave, min_vis, max_cloud) ==
    [max_wind_speed_kts |-> max_wind, max_wave_height_ft |-> max_wave,
     min_visibility_m |-> min_vis, max_cloud_cover_pct |-> max_cloud]

\* No thresholds given, tighter ones than the defaults, and the lowest
\* values the input form of app.py accepts.
ThresholdChoices ==
    {Thresholds(Missing, Missing, Missing, Missing),
     Thresholds(Num(20), Num(4), Num(8000), Num(50)),
     Thresholds(Num(0), Num(0), Num(0), Num(0))}

\* Formations: none, a flight deck, a gun, and six vessels with both.
Formations ==
    {<<>>,
     <<Vessel(Num(65), TRUE, FALSE)>>,
     <<Vessel(Num(50), FALSE, TRUE), Vessel(Num(0), FALSE, FALSE)>>,
     <<Vessel(Num(65), TRUE, FALSE), Vessel(Num(50), FALSE, TRUE),
       Vessel(Num(50), FALSE, TRUE), Vessel(Num(35), TRUE, TRUE),
       Vessel(Missing, FALSE, FALSE), Vessel(None, FALSE, FALSE)>>}

\* The missions the planner offers.
DefinedMissions ==
    {"amphibious_landing", "naval_gunfire_support", "flight_operations",
     "maritime_interdiction", "humanitarian_assistance"}

\* The missions of the model: the defined ones and a name that is none of them.
Missions == DefinedMissions \cup {"balanced"}

\* The inputs of the analyzer.
AnalyzerInputs(mission, th, vessels) ==
    [primary_mission |-> mission, weather_thresholds |-> th, vessels |-> vessels,
     min_distance_shore_nm |-> Missing, max_distance_shore_nm |-> Missing]

\* An enriched point, as collect builds it.
Point(lat, lon, weather, mar, bathy, from_center, from_target) ==
    [lat |-> lat, lon |-> lon, weather |-> weather, marine |-> mar,
     bathymetry |-> bathy, distance_from_center_nm |-> from_center,
     distance_from_target_nm |-> from_target]

DeepWater == BathymetryResult(400, 400 * M_TO_FT, TRUE, FALSE, "OpenTopoData")
ShallowWater == BathymetryResult(5, 5 * M_TO_FT, TRUE, FALSE, "OpenTopoData")

\* The points the lists are made of: two that differ in position only, one
\* in calm weather without marine data and without a target distance, one in
\* bad weather on the target, one with null values, one without weather and
\* bathymetry.
PointPool ==
    {Point(11664133, 92539933, DefaultWeather, Marine(Num(3), Num(2), Num(1)),
           FallbackEstimate, Num(6000000), Num(8000000)),
     Point(11664133, 92689933, DefaultWeather, Marine(Num(3), Num(2), Num(1)),
           FallbackEstimate, Num(6000000), Num(8000000)),
     Point(11814133, 92539933, Weather(Num(0), Num(0), Num(0), Num(20000)), None,
           DeepWater, Num(84035), Missing),
     Point(11814133, 92689933, Weather(Num(30), Num(6), Num(90), Num(4000)),
           Marine(Num(7), Num(7), Num(3)), ShallowWater, Num(6000000), Num(0)),
     Point(11964133, 92539933, Weather(Num(15), Num(0), None, Num(10000)),
           Marine(None, None, None), FallbackEstimate, Num(6000000),
           Num(12000000)),
     Point(11964133, 92689933, None, Marine(Num(3), Num(2), Num(1)), None,
           Num(60000000), Num(8000000))}

\* The lists of at most n points of the pool.
PointLists(n) == UNION {[1..l -> PointPool] : l \in 0..n}

\* data['target'] when a target was resolved.
TargetPlace == Place(11668900, 92591600, "11.6689, 92.5916")

\* data, as far as the analyzer reads it.
AnalyzerData(t, points) == [target |-> t, analyzed_points |-> points]

\* NavalOperationsAnalyzer(inputs, data)
InitScore ==
    /\ cache = EmptyCache
    /\ bathy_calls = <<>>
    /\ NoCollector
    /\ a_inputs \in {AnalyzerInputs(mission, th, vessels) :
                        mission \in Missions, th \in ThresholdChoices,
                        vessels \in Formations}
    /\ a_data \in {AnalyzerData(t, points) :
                      t \in {NoPlace, TargetPlace}, points \in PointLists(MaxPoints)}
    /\ a_pc = "ready"
    /\ scored_points = <<>>
    /\ raised = ""
    /\ weights = Unset
    /\ NoCall

\* analyze()
Analyze ==
    /\ a_pc = "ready"
    /\ LET r == analyze(a_inputs, a_data) IN
        IF r.err # ""
        THEN /\ a_pc' = "raised"
             /\ raised' = r.err
             /\ UNCHANGED <<scored_points, weights>>
        ELSE /\ a_pc' = "returned"
             /\ scored_points' = r.v.scored
             /\ weights' = r.v.weights
             /\ UNCHANGED raised
    /\ UNCHANGED <<a_inputs, a_data, bathy_vars, collect_vars, call_vars>>

NextScore == Analyze

SpecScore == InitScore /\ [][NextScore]_vars


(***************************************************************************)
(* Properties of the analyzer                                              *)
(***************************************************************************)
\* C4: analyze never fails, whatever the points, the mission, the
\* thresholds in their allowed ranges and the formation.  The code does not
\* keep this: a threshold of 0, a null weather value or a null bathymetry
\* make a sub-score raise.
C4_AnalyzeNeverRaises == a_pc # "raised"

\* The names of the six sub-scores.
SubScores == {"weather", "sea_state", "depth", "flight_ops", "fire_support", "distance"}

\* C5: analyze returns one record per input point, each carrying its point's
\* position, weather, marine data, bathymetry and distances unchanged (a
\* missing entry reads as None), in descending order of overall, records of
\* equal overall in the order of the input.
C5_OneRecordPerPointStableDescending ==
    a_pc = "returned" =>
        LET points == a_data.analyzed_points IN
        /\ Len(scored_points) = Len(points)
        /\ {scored_points[k].input_index : k \in DOMAIN scored_points} = DOMAIN points
        /\ \A k \in DOMAIN scored_points :
               LET rec == scored_points[k]
                   p == points[rec.input_index]
               IN  /\ rec.lat = p.lat
                   /\ rec.lon = p.lon
                   /\ rec.weather = p.weather
                   /\ rec.marine = p.marine
                   /\ rec.bathymetry = p.bathymetry
                   /\ rec.distance_from_center_nm = p.distance_from_center_nm
                   /\ rec.distance_from_target_nm =
                          (IF p.distance_from_target_nm = Missing THEN None
                           ELSE p.distance_from_target_nm)
        /\ \A k, l \in DOMAIN scored_points :
               k < l =>
                   /\ scored_points[k].scores.overall >= scored_points[l].scores.overall
                   /\ scored_points[k].scores.overall = scored_points[l].scores.overall
                          => scored_points[k].input_index < scored_points[l].input_index

\* Two different points of equal overall were scored and returned.
C5_Witness ==
    /\ a_pc = "returned"
    /\ Len(scored_points) = 2
    /\ scored_points[1].lon # scored_points[2].lon
    /\ scored_points[1].scores.overall = scored_points[2].scores.overall
    /\ scored_points[1].scores.overall > 0

\* C6: of every scored point, each of the six sub-scores and the overall
\* score lie in [0, 100] (the scores are in tenths).
C6_ScoresWithinBounds ==
    \A k \in DOMAIN scored_points :
        \A name \in SubScores \cup {"overall"} :
            /\ scored_points[k].scores[name] >= 0
            /\ scored_points[k].scores[name] <= 1000

\* A point was scored whose weather formula exceeds 100 before the clamp
\* (no wind, no cloud, the full visibility bonus), next to sub-scores of 0.
C6_Witness ==
    /\ a_pc = "returned"
    /\ \E k \in DOMAIN scored_points :
           /\ scored_points[k].scores.weather = 1000
           /\ scored_points[k].weather = Weather(Num(0), Num(0), Num(0), Num(20000))
           /\ scored_points[k].scores.flight_ops = 0
           /\ scored_points[k].scores.overall > 0

\* The sum of a weight vector, in hundredths.
WeightSum(w) ==
    w.weather + w.sea_state + w.depth + w.flight_ops + w.fire_support + w.distance

\* C7: the vector _weights_for_mission returns has exactly the six
\* sub-scores as keys and sums to 1.0, for the five defined missions and for
\* a name that is none of them; the unrecognized name gets the balanced
\* default vector and naval_gunfire_support weights fire_support at 0.40.
C7_WeightsSumToOne ==
    weights # Unset =>
        /\ DOMAIN weights = SubScores
        /\ WeightSum(weights) = 100
        /\ a_inputs.primary_mission \notin DefinedMissions
               => weights = Weights(20, 20, 15, 15, 20, 10)
        /\ a_inputs.primary_mission = "naval_gunfire_support"
               => weights.fire_support = 40

\* analyze scored a point for a mission name that is not a defined one.
C7_Witness ==
    /\ a_pc = "returned"
    /\ a_inputs.primary_mission \notin DefinedMissions
    /\ weights # Unset
    /\ Len(scored_points) > 0


(***************************************************************************)
(* generate_grid_points called on its own                                  *)
(***************************************************************************)
\* The centers of the grids, in micro-degrees.
GridCenters == {<<11680800, 92556600>>, <<11623400, 92726500>>}

\* A radius of 3.5 spacings around the first center, scaled down to whole
\* micro-degrees: radius 7, spacing 2, a lattice of 8 by 8 with 32 points
\* inside the radius.
FineGeometry == <<420, 120>>

\* The centers and geometries of the calls: <<lat, lon, radius, spacing>>.
GridShapes ==
    {<<c[1], c[2], g[1], g[2]>> : c \in GridCenters, g \in Geometries}
        \cup {<<11680800, 92556600, FineGeometry[1], FineGeometry[2]>>}

\* The sector bounds of the calls, in micro-degrees.
GridSectors ==
    {<<lo, hi>> : lo \in {0, 60000000, 150000000, 300000000, 350000000},
                  hi \in {60000000, 150000000, 300000000, 360000000}}

GridCall(shape, sector) ==
    [center_lat |-> shape[1], center_lon |-> shape[2], radius_nm |-> shape[3],
     grid_spacing_nm |-> shape[4], sector_min_bearing |-> sector[1],
     sector_max_bearing |-> sector[2]]

InitGrid ==
    /\ cache = EmptyCache
    /\ bathy_calls = <<>>
    /\ NoCollector
    /\ NoAnalyzer
    /\ fn_call \in {GridCall(shape, sector) : shape \in GridShapes, sector \in GridSectors}
    /\ fn_ret = NotReturned

\* generate_grid_points(center_lat, center_lon, radius_nm, grid_spacing_nm)
CallGenerateGridPoints ==
    /\ ~Returned
    /\ fn_ret' = Ok(generate_grid_points(fn_call.center_lat, fn_call.center_lon,
                                         fn_call.radius_nm, fn_call.grid_spacing_nm,
                                         fn_call.sector_min_bearing,
                                         fn_call.sector_max_bearing))
    /\ UNCHANGED <<fn_call, bathy_vars, collect_vars, analyzer_vars>>

NextGrid == CallGenerateGridPoints

SpecGrid == InitGrid /\ [][NextGrid]_vars

\* The bearing b lies in the sector from lo to hi, which passes through
\* north when lo > hi.
InSector(b, lo, hi) == IF lo > hi THEN b >= lo \/ b <= hi ELSE lo <= b /\ b <= hi

\* C11: every point generate_grid_points returns lies within radius_nm / 60
\* degrees of the center and bears from the center inside the sector; with
\* the sector from 300 to 60 the point bearing 348.9 degrees (5 north, 1 west)
\* is returned and the point bearing 149.6 degrees (5 south, 3 east) is not.
C11_GridPointsInRadiusAndSector ==
    Returned =>
        LET c == fn_call
            r == c.radius_nm \div 60
        IN  /\ \A k \in DOMAIN fn_ret.v :
                   LET p == fn_ret.v[k]
                       dlat == p.lat - c.center_lat
                       dlon == p.lon - c.center_lon
                   IN  /\ dlat * dlat + dlon * dlon <= r * r
                       /\ InSector(calculate_bearing(c.center_lat, c.center_lon,
                                                     p.lat, p.lon),
                                   c.sector_min_bearing, c.sector_max_bearing)
            /\ (/\ c.radius_nm = FineGeometry[1]
                /\ c.sector_min_bearing = 300000000
                /\ c.sector_max_bearing = 60000000)
               => /\ [lat |-> c.center_lat + 5, lon |-> c.center_lon - 1]
                         \in Range(fn_ret.v)
                  /\ [lat |-> c.center_lat - 5, lon |-> c.center_lon + 3]
                         \notin Range(fn_ret.v)

\* The fine grid was generated for the sector from 300 to 60: 12 of its 32
\* points are in the sector.
C11_Witness ==
    /\ Returned
    /\ fn_call.radius_nm = FineGeometry[1]
    /\ fn_call.sector_min_bearing = 300000000
    /\ fn_call.sector_max_bearing = 60000000
    /\ Len(fn_ret.v) = 12


(***************************************************************************)
(* naval_ops/planner.py: build_derived_geometry                            *)
(***************************************************************************)
\* 360.0 degrees, in micro-degrees.
FULL_CIRCLE == 360000000

\* 90.0 degrees, in micro-degrees.
QUARTER_CIRCLE == 90000000

\* calculate_midpoint(lat1, lon1, lat2, lon2)
calculate_midpoint(lat1, lon1, lat2, lon2) == <<(lat1 + lat2) \div 2, (lon1 + lon2) \div 2>>

\* planner.calculate_bearing(lat1, lon1, lat2, lon2), in micro-degrees
\* rounded down, evaluated by the source on the boundary points of this model.
PlannerBearingTable ==
    { <<11600000, 92500000, 11600000, 92600000, 89989946>>,
      <<11600000, 92500000, 11600000, 92700000, 89979892>>,
      <<11600000, 92500000, 11600000, 92800000, 89969838>>,
      <<11600000, 92500000, 11650000, 92500000, 0>>,
      <<11600000, 92500000, 11650000, 92600000, 62946934>>,
      <<11600000, 92500000, 11650000, 92700000, 75661641>>,
      <<11600000, 92500000, 11650000, 92800000, 80313006>>,
      <<11600000, 92500000, 11700000, 92500000, 0>>,
      <<11600000, 92500000, 11700000, 92600000, 44393630>>,
      <<11600000, 92500000, 11700000, 92700000, 62934751>>,
      <<11600000, 92500000, 11700000, 92800000, 71174020>>,
      <<11600000, 92600000, 11600000, 92500000, 270010053>>,
      <<11600000, 92600000, 11600000, 92700000, 89989946>>,
      <<11600000, 92600000, 11600000, 92800000, 89979892>>,
      <<11600000, 92600000, 11650000, 92500000, 297053065>>,
      <<11600000, 92600000, 11650000, 92600000, 0>>,
      <<11600000, 92600000, 11650000, 92700000, 62946934>>,
      <<11600000, 92600000, 11650000, 92800000, 75661641>>,
      <<11600000, 92600000, 11700000, 92500000, 315606369>>,
      <<11600000, 92600000, 11700000, 92600000, 0>>,
      <<11600000, 92600000, 11700000, 92700000, 44393630>>,
      <<11600000, 92600000, 11700000, 92800000, 62934751>>,
      <<11600000, 92700000, 11600000, 92500000, 270020107>>,
      <<11600000, 92700000, 11600000, 92600000, 270010053>>,
      <<11600000, 92700000, 11600000, 92800000, 89989946>>,
      <<11600000, 92700000, 11650000, 92500000, 284338358>>,
      <<11600000, 92700000, 11650000, 92600000, 297053065>>,
      <<11600000, 92700000, 11650000, 92700000, 0>>,
      <<11600000, 92700000, 11650000, 92800000, 62946934>>,
      <<11600000, 92700000, 11700000, 92500000, 297065248>>,
      <<11600000, 92700000, 11700000, 92600000, 315606369>>,
      <<11600000, 92700000, 11700000, 92700000, 0>>,
      <<11600000, 92700000, 11700000, 92800000, 44393630>>,
      <<11600000, 92800000, 11600000, 92500000, 270030161>>,
      <<11600000, 92800000, 11600000, 92600000, 270020107>>,
      <<11600000, 92800000, 11600000, 92700000, 270010053>>,
      <<11600000, 92800000, 11650000, 92500000, 279686993>>,
      <<11600000, 92800000, 11650000, 92600000, 284338358>>,
      <<11600000, 92800000, 11650000, 92700000, 297053065>>,
      <<11600000, 92800000, 11650000, 92800000, 0>>,
      <<11600000, 92800000, 11700000, 92500000, 288825979>>,
      <<11600000, 92800000, 11700000, 92600000, 297065248>>,
      <<11600000, 92800000, 11700000, 92700000, 315606369>>,
      <<11600000, 92800000, 11700000, 92800000, 0>>,
      <<11650000, 92500000, 11600000, 92500000, 180000000>>,
      <<11650000, 92500000, 11600000, 92600000, 117032915>>,
      <<11650000, 92500000, 11600000, 92700000, 104298057>>,
      <<11650000, 92500000, 11600000, 92800000, 99626541>>,
      <<11650000, 92500000, 11650000, 92600000, 89989903>>,
      <<11650000, 92500000, 11650000, 92700000, 89979806>>,
      <<11650000, 92500000, 11650000, 92800000, 89969710>>,
      <<11650000, 92500000, 11700000, 92500000, 0>>,
      <<11650000, 92500000, 11700000, 92600000, 62942716>>,
      <<11650000, 92500000, 11700000, 92700000, 75659085>>,
      <<11650000, 92500000, 11700000, 92800000, 80311173>>,
      <<11650000, 92600000, 11600000, 92500000, 242967084>>,
      <<11650000, 92600000, 11600000, 92600000, 180000000>>,
      <<11650000, 92600000, 11600000, 92700000, 117032915>>,
      <<11650000, 92600000, 11600000, 92800000, 104298057>>,
      <<11650000, 92600000, 11650000, 92500000, 270010096>>,
      <<11650000, 92600000, 11650000, 92700000, 89989903>>,
      <<11650000, 92600000, 11650000, 92800000, 89979806>>,
      <<11650000, 92600000, 11700000, 92500000, 297057283>>,
      <<11650000, 92600000, 11700000, 92600000, 0>>,
      <<11650000, 92600000, 11700000, 92700000, 62942716>>,
      <<11650000, 92600000, 11700000, 92800000, 75659085>>,
      <<11650000, 92700000, 11600000, 92500000, 255701942>>,
      <<11650000, 92700000, 11600000, 92600000, 242967084>>,
      <<11650000, 92700000, 11600000, 92700000, 180000000>>,
      <<11650000, 92700000, 11600000, 92800000, 117032915>>,
      <<11650000, 92700000, 11650000, 92500000, 270020193>>,
      <<11650000, 92700000, 11650000, 92600000, 270010096>>,
      <<11650000, 92700000, 11650000, 92800000, 89989903>>,
      <<11650000, 92700000, 11700000, 92500000, 284340914>>,
      <<11650000, 92700000, 11700000, 92600000, 297057283>>,
      <<11650000, 92700000, 11700000, 92700000, 0>>,
      <<11650000, 92700000, 11700000, 92800000, 62942716>>,
      <<11650000, 92800000, 11600000, 92500000, 260373458>>,
      <<11650000, 92800000, 11600000, 92600000, 255701942>>,
      <<11650000, 92800000, 11600000, 92700000, 242967084>>,
      <<11650000, 92800000, 11600000, 92800000, 180000000>>,
      <<11650000, 92800000, 11650000, 92500000, 270030289>>,
      <<11650000, 92800000, 11650000, 92600000, 270020193>>,
      <<11650000, 92800000, 11650000, 92700000, 270010096>>,
      <<11650000, 92800000, 11700000, 92500000, 279688826>>,
      <<11650000, 92800000, 11700000, 92600000, 284340914>>,
      <<11650000, 92800000, 11700000, 92700000, 297057283>>,
      <<11650000, 92800000, 11700000, 92800000, 0>>,
      <<11700000, 92500000, 11600000, 92500000, 180000000>>,
      <<11700000, 92500000, 11600000, 92600000, 135586176>>,
      <<11700000, 92500000, 11600000, 92700000, 117024862>>,
      <<11700000, 92500000, 11600000, 92800000, 108765399>>,
      <<11700000, 92500000, 11650000, 92500000, 180000000>>,
      <<11700000, 92500000, 11650000, 92600000, 117037047>>,
      <<11700000, 92500000, 11650000, 92700000, 104300442>>,
      <<11700000, 92500000, 11650000, 92800000, 99628118>>,
      <<11700000, 92500000, 11700000, 92600000, 89989860>>,
      <<11700000, 92500000, 11700000, 92700000, 89979721>>,
      <<11700000, 92500000, 11700000, 92800000, 89969581>>,
      <<11700000, 92600000, 11600000, 92500000, 224413823>>,
      <<11700000, 92600000, 11600000, 92600000, 180000000>>,
      <<11700000, 92600000, 11600000, 92700000, 135586176>>,
      <<11700000, 92600000, 11600000, 92800000, 117024862>>,
      <<11700000, 92600000, 11650000, 92500000, 242962952>>,
      <<11700000, 92600000, 11650000, 92600000, 180000000>>,
      <<11700000, 92600000, 11650000, 92700000, 117037047>>,
      <<11700000, 92600000, 11650000, 92800000, 104300442>>,
      <<11700000, 92600000, 11700000, 92500000, 270010139>>,
      <<11700000, 92600000, 11700000, 92700000, 89989860>>,
      <<11700000, 92600000, 11700000, 92800000, 89979721>>,
      <<11700000, 92700000, 11600000, 92500000, 242975137>>,
      <<11700000, 92700000, 11600000, 92600000, 224413823>>,
      <<11700000, 92700000, 11600000, 92700000, 180000000>>,
      <<11700000, 92700000, 11600000, 92800000, 135586176>>,
      <<11700000, 92700000, 11650000, 92500000, 255699557>>,
      <<11700000, 92700000, 11650000, 92600000, 242962952>>,
      <<11700000, 92700000, 11650000, 92700000, 180000000>>,
      <<11700000, 92700000, 11650000, 92800000, 117037047>>,
      <<11700000, 92700000, 11700000, 92500000, 270020278>>,
      <<11700000, 92700000, 11700000, 92600000, 270010139>>,
      <<11700000, 92700000, 11700000, 92800000, 89989860>>,
      <<11700000, 92800000, 11600000, 92500000, 251234600>>,
      <<11700000, 92800000, 11600000, 92600000, 242975137>>,
      <<11700000, 92800000, 11600000, 92700000, 224413823>>,
      <<11700000, 92800000, 11600000, 92800000, 180000000>>,
      <<11700000, 92800000, 11650000, 92500000, 260371881>>,
      <<11700000, 92800000, 11650000, 92600000, 255699557>>,
      <<11700000, 92800000, 11650000, 92700000, 242962952>>,
      <<11700000, 92800000, 11650000, 92800000, 180000000>>,
      <<11700000, 92800000, 11700000, 92500000, 270030418>>,
      <<11700000, 92800000, 11700000, 92600000, 270020278>>,
      <<11700000, 92800000, 11700000, 92700000, 270010139>> }

planner_calculate_bearing(lat1, lon1, lat2, lon2) ==
    (CHOOSE e \in PlannerBearingTable :
        e[1] = lat1 /\ e[2] = lon1 /\ e[3] = lat2 /\ e[4] = lon2)[5]

\* A bug calculate_perpendicular_bearing could have: the sum is not reduced.
calculate_perpendicular_bearing_unreduced(bearing) == bearing + QUARTER_CIRCLE

\* calculate_perpendicular_bearing(bearing): 90 degrees clockwise.
calculate_perpendicular_bearing(bearing) == (bearing + QUARTER_CIRCLE) % FULL_CIRCLE

\* f"{x:.4f}" as the number of 1e-4 degrees it prints.
Fmt4(x) == (IF x < 0 THEN -1 ELSE 1) * ((Abs(x) + 50) \div 100)

\* build_derived_geometry(inputs): the entries it adds to inputs.
build_derived_geometry(a, b) ==
    LET mid == calculate_midpoint(a.lat, a.lon, b.lat, b.lon)
        lateral_bearing == planner_calculate_bearing(a.lat, a.lon, b.lat, b.lon)
        doa == calculate_perpendicular_bearing(lateral_bearing)
    IN  [center_coords |-> [lat |-> mid[1], lon |-> mid[2]],
         center_location |-> LocCoords(Fmt4(mid[1]), Fmt4(mid[2])),
         direction_of_attack |-> doa,
         sector_min_bearing |-> (doa - QUARTER_CIRCLE) % FULL_CIRCLE,
         sector_max_bearing |-> (doa + QUARTER_CIRCLE) % FULL_CIRCLE]

\* The boundary points of the calls, in micro-degrees.
BoundaryPoints ==
    {[lat |-> lat, lon |-> lon] :
        lat \in {11600000, 11650000, 11700000},
        lon \in {92500000, 92600000, 92700000, 92800000}}

InitGeometry ==
    /\ cache = EmptyCache
    /\ bathy_calls = <<>>
    /\ NoCollector
    /\ NoAnalyzer
    /\ fn_call \in {[lateral_limit_a |-> a, lateral_limit_b |-> b] :
                       a \in BoundaryPoints, b \in BoundaryPoints}
    /\ fn_call.lateral_limit_a # fn_call.lateral_limit_b
    /\ fn_ret = NotReturned

\* build_derived_geometry(inputs)
CallBuildDerivedGeometry ==
    /\ ~Returned
    /\ fn_ret' = Ok(build_derived_geometry(fn_call.lateral_limit_a,
                                           fn_call.lateral_limit_b))
    /\ UNCHANGED <<fn_call, bathy_vars, collect_vars, analyzer_vars>>

NextGeometry == CallBuildDerivedGeometry

SpecGeometry == InitGeometry /\ [][NextGeometry]_vars

\* C12: for two distinct boundary points A and B the direction of attack is
\* the bearing from A to B plus 90 degrees, the sector bounds are the
\* direction of attack minus and plus 90 degrees, all modulo 360, so the
\* upper bound is the lower bound plus 180 degrees modulo 360 and the three
\* bearings lie in [0, 360).
C12_SectorIsHalfCircleAroundAttack ==
    Returned =>
        LET a == fn_call.lateral_limit_a
            b == fn_call.lateral_limit_b
            g == fn_ret.v
            bearing == planner_calculate_bearing(a.lat, a.lon, b.lat, b.lon)
        IN  /\ g.direction_of_attack = (bearing + 90000000) % 360000000
            /\ g.sector_min_bearing = (g.direction_of_attack - 90000000) % 360000000
            /\ g.sector_max_bearing = (g.direction_of_attack + 90000000) % 360000000
            /\ g.sector_max_bearing = (g.sector_min_bearing + 180000000) % 360000000
            /\ \A x \in {g.direction_of_attack, g.sector_min_bearing,
                         g.sector_max_bearing} : 0 <= x /\ x < 360000000

\* The geometry was derived from a boundary bearing north-west, where the
\* direction of attack passes through north and the sector wraps.
C12_Witness ==
    /\ Returned
    /\ planner_calculate_bearing(fn_call.lateral_limit_a.lat, fn_call.lateral_limit_a.lon,
                                 fn_call.lateral_limit_b.lat, fn_call.lateral_limit_b.lon)
           > 270000000
    /\ fn_ret.v.direction_of_attack < 90000000
    /\ fn_ret.v.sector_min_bearing > fn_ret.v.sector_max_bearing


(***************************************************************************)
(* score_weather called on its own                                         *)
(***************************************************************************)
\* The snapshots and thresholds of the calls: winds at, one above and below
\* the limits 20 and 25, no, light and heavy precipitation, cloud below, at
\* and above the limits, visibility below, at and above the minimum.
WeatherCalls ==
    {[weather |-> Weather(Num(wind), Num(precip), Num(cloud), Num(vis)), th |-> th] :
        wind \in {0, 10, 20, 21, 25, 26}, precip \in {0, 3, 6},
        cloud \in {0, 40, 75, 90}, vis \in {4000, 5000, 8000, 20000},
        th \in ThresholdChoices}

InitWeather ==
    /\ cache = EmptyCache
    /\ bathy_calls = <<>>
    /\ NoCollector
    /\ NoAnalyzer
    /\ fn_call \in WeatherCalls
    /\ fn_ret = NotReturned

\* score_weather(weather)
CallScoreWeather ==
    /\ ~Returned
    /\ fn_ret' = score_weather(fn_call.weather, fn_call.th)
    /\ UNCHANGED <<fn_call, bathy_vars, collect_vars, analyzer_vars>>

NextWeather == CallScoreWeather

SpecWeather == InitWeather /\ [][NextWeather]_vars

\* C13: with visibility at least min_visibility_m, a wind equal to
\* max_wind_speed_kts scores above 0 and a wind one unit above it scores
\* exactly 0, whatever the cloud cover and the precipitation.  The code does
\* not keep the first half: the penalties for wind at the limit (30), cloud
\* above its limit (40) and heavy precipitation (30) add up to 100.
C13_WindAtLimitScoresPositive ==
    Returned =>
        LET max_wind == Get(fn_call.th, "max_wind_speed_kts", 25).v
            min_vis_m == Get(fn_call.th, "min_visibility_m", 5000).v
            wind == fn_call.weather.wind_speed_10m.v
            vis == fn_call.weather.visibility.v
        IN  vis >= min_vis_m =>
                /\ wind = max_wind => fn_ret.err = "" /\ fn_ret.v[1] > 0
                /\ wind = max_wind + 1 => fn_ret.err = "" /\ fn_ret.v[1] = 0


(***************************************************************************)
(* score_depth called on its own                                           *)
(***************************************************************************)
\* The depth requirements of the formations of the calls, vessel by vessel.
DepthRequirements ==
    {<<>>, <<Num(65)>>, <<Num(0)>>, <<Num(0), Num(10)>>, <<Num(50), Num(0)>>,
     <<Num(35), Num(65), Num(50)>>, <<Missing>>, <<None, Num(30)>>}

\* The formation whose vessels have the requirements reqs.
FormationRequiring(reqs) == [n \in DOMAIN reqs |-> Vessel(reqs[n], FALSE, FALSE)]

\* The depths of the calls, in feet.
DepthsFt == {0, 10, 15, 20, 40, 65, 100, 300, 301, 1312}

\* A bathymetry dict with the given depth in feet.
BathymetryAt(feet, is_ocean) ==
    BathymetryResult(0, feet * FT_UNIT, is_ocean, FALSE, "OpenTopoData")

DepthCalls ==
    {[bathy |-> BathymetryAt(feet, is_ocean), vessels |-> FormationRequiring(reqs)] :
        feet \in DepthsFt, is_ocean \in BOOLEAN, reqs \in DepthRequirements}
    \cup {[bathy |-> None, vessels |-> FormationRequiring(reqs)] :
             reqs \in DepthRequirements}

InitDepth ==
    /\ cache = EmptyCache
    /\ bathy_calls = <<>>
    /\ NoCollector
    /\ NoAnalyzer
    /\ fn_call \in DepthCalls
    /\ fn_ret = NotReturned

\* score_depth(bathy, vessels)
CallScoreDepth ==
    /\ ~Returned
    /\ fn_ret' = score_depth(fn_call.bathy, fn_call.vessels)
    /\ UNCHANGED <<fn_call, bathy_vars, collect_vars, analyzer_vars>>

NextDepth == CallScoreDepth

SpecDepth == InitDepth /\ [][NextDepth]_vars

\* The vessels of the call all supply a number as min_depth_ft.
AllSupplyDepth ==
    /\ fn_call.vessels # <<>>
    /\ \A n \in DOMAIN fn_call.vessels : fn_call.vessels[n].min_depth_ft.k = "num"

\* The largest min_depth_ft the vessels of the call supply.
LargestRequirement ==
    LET reqs == {fn_call.vessels[n].min_depth_ft.v : n \in DOMAIN fn_call.vessels}
    IN  CHOOSE m \in reqs : \A o \in reqs : o <= m

\* C14: for a formation whose vessels supply their min_depth_ft, whatever
\* the values, score_depth is 0 for a point that is not ocean or shallower
\* than the largest of them, 100 for a depth from that requirement to 300 ft,
\* and 80 for a depth above 300 ft.  The code does not keep this: it takes a
\* supplied requirement of 0 as 20.
C14_DepthAgainstLargestRequirement ==
    (Returned /\ fn_call.bathy # None /\ AllSupplyDepth) =>
        LET feet == fn_call.bathy.depth_ft \div FT_UNIT
            score == fn_ret.v
        IN  /\ fn_ret.err = ""
            /\ (~fn_call.bathy.is_ocean \/ feet < LargestRequirement)
                   => score = RInt(0)
            /\ (fn_call.bathy.is_ocean /\ LargestRequirement <= feet /\ feet <= 300)
                   => score = RInt(100)
            /\ (fn_call.bathy.is_ocean /\ LargestRequirement <= feet /\ feet > 300)
                   => score = RInt(80)


(***************************************************************************)
(* More properties of collect                                              *)
(***************************************************************************)
\* C15: collect looks a point's bathymetry up before any other request for
\* the point and makes no marine request for a point that is land, so there
\* are never more marine requests than ocean points found.  The code does
\* not keep this: it fetches the marine data of every grid point, before
\* the bathymetry lookup.
C15_NoMarineRequestForLand ==
    pc \in {"marine", "bathymetry", "astro", "done"} =>
        Len(Positions("marine")) <= stats.ocean_points


\* The requests get_regional_weather has made are at most 5, at the exact
\* point, +0.5 lat, -0.5 lat, +0.5 lon, -0.5 lon in this order; while it
\* runs every outcome of a request lets it go on, none makes it raise; once
\* it returned, the snapshot is the default (wind 15, precipitation 0, cloud
\* 40, visibility 10000) only after 5 requests, and every enriched point
\* carries the snapshot.
C16_StateInvariant ==
    LET requests == Positions("weather")
        offsets == << <<0, 0>>, <<500000, 0>>, <<-500000, 0>>,
                      <<0, 500000>>, <<0, -500000>> >>
    IN  /\ Len(requests) <= 5
        /\ \A k \in DOMAIN requests :
               /\ trace[requests[k]].a = center.lat + offsets[k][1]
               /\ trace[requests[k]].b = center.lon + offsets[k][2]
        /\ pc = "regional_weather" =>
               /\ Len(requests) = attempt
               /\ \A o \in WeatherOutcomes : ENABLED RegionalWeatherAttempt(o)
        /\ pc \in {"grid", "marine", "bathymetry", "astro", "done"} =>
               /\ Len(requests) >= 1
               /\ region_weather = Weather(Num(15), Num(0), Num(40), Num(10000))
                      => Len(requests) = 5
               /\ region_weather # Weather(Num(15), Num(0), Num(40), Num(10000))
                      => \E o \in WeatherOutcomes :
                             o.kind = "ok" /\ region_weather = o.block
        /\ \A k \in DOMAIN analyzed_points :
               analyzed_points[k].weather = region_weather

\* A request of get_regional_weather that succeeds ends it with the data of
\* that request; one that fails is followed by the next attempt, or after
\* the fifth by the default; it never raises; and after it returned collect
\* makes no weather request any more and keeps the snapshot.
C16_Step ==
    /\ \A o \in WeatherOutcomes :
           RegionalWeatherAttempt(o) =>
               IF o.kind = "ok"
               THEN pc' = "grid" /\ region_weather' = o.block
               ELSE IF attempt < 4
               THEN pc' = "regional_weather" /\ attempt' = attempt + 1
               ELSE /\ pc' = "grid"
                    /\ region_weather' = Weather(Num(15), Num(0), Num(40), Num(10000))
    /\ pc = "regional_weather" => pc' \in {"regional_weather", "grid"}
    /\ pc \in {"grid", "marine", "bathymetry", "astro", "done"} =>
           /\ Len(Positions("weather"))' = Len(Positions("weather"))
           /\ region_weather' = region_weather

\* C16: get_regional_weather makes at most 5 attempts in the fixed order of
\* offsets, returns the data of the first attempt that succeeds without a
\* further attempt, returns the default snapshot when all 5 fail, never
\* raises; collect calls it once and attaches its snapshot to every enriched
\* point.
C16_RegionalWeatherAttempts == []C16_StateInvariant /\ [][C16_Step]_vars

\* A run in which all 5 attempts failed came back with points that carry
\* the default snapshot.
C16_Witness ==
    /\ pc = "done"
    /\ Len(Positions("weather")) = 5
    /\ region_weather = DefaultWeather
    /\ Len(data.analyzed_points) > 0
    /\ \A k \in DOMAIN data.analyzed_points :
           data.analyzed_points[k].weather = DefaultWeather


\* C17: a location string that contains a comma is parsed as "lat, lon" and
\* never looked up by name, so once collect has geocoded a center that
\* contains a comma no geocoding request has been made.  The code does not
\* keep this: when the parts of the string are not numbers, as in
\* "Port Blair, India", it goes on to the name lookup.
C17_CommaLocationNeverLookedUp ==
    (pc \in {"geocode_target", "raised"} /\ HasComma(inputs.center_location)) =>
        Len(Positions("geocode")) = 0


(***************************************************************************)
(* score_fire_support called on its own                                    *)
(***************************************************************************)
\* The distances to the target of the calls, in micro nautical miles: at
\* the target, inside 70% of the range, at 70% (9.1 nm), just above, at the
\* range, just above, and far; and the key absent or null.
TargetDistances ==
    {Num(0), Num(5000000), Num(9100000), Num(9100001), Num(13000000),
     Num(13000001), Num(20000000), Missing, None}

FireCalls ==
    {[point |-> Point(11664133, 92539933, DefaultWeather, None,
                      BathymetryAt(feet, TRUE), Num(6000000), dist),
      vessels |-> vessels, target |-> t] :
        dist \in TargetDistances, feet \in {20, 30, 100},
        vessels \in {<<>>, <<Vessel(Num(65), TRUE, FALSE)>>,
                     <<Vessel(Num(65), TRUE, FALSE), Vessel(Num(50), FALSE, TRUE)>>},
        t \in {NoPlace, TargetPlace}}

InitFire ==
    /\ cache = EmptyCache
    /\ bathy_calls = <<>>
    /\ NoCollector
    /\ NoAnalyzer
    /\ fn_call \in FireCalls
    /\ fn_ret = NotReturned

\* score_fire_support(point, vessels)
CallScoreFireSupport ==
    /\ ~Returned
    /\ fn_ret' = score_fire_support(fn_call.point, fn_call.vessels,
                                    AnalyzerData(fn_call.target, <<fn_call.point>>))
    /\ UNCHANGED <<fn_call, bathy_vars, collect_vars, analyzer_vars>>

NextFire == CallScoreFireSupport

SpecFire == InitFire /\ [][NextFire]_vars

\* C18: score_fire_support is 0 without a 5-inch gun; with a gun and a
\* target, for every distance from the target of 0 or more it is 100 up to
\* 9.1 nm (70% of 13 nm), 80 up to 13 nm and 0 beyond, the in-range scores
\* less 40 when the depth is below 30 ft.  The code does not keep this at
\* distance 0, which it reads as no distance at all.
C18_FireSupportByDistance ==
    Returned =>
        LET has_gun == \E n \in DOMAIN fn_call.vessels :
                           fn_call.vessels[n].has_5_inch_gun
            dist == fn_call.point.distance_from_target_nm
            feet == fn_call.point.bathymetry.depth_ft \div FT_UNIT
            penalty == IF feet < 30 THEN 40 ELSE 0
        IN  /\ fn_ret.err = ""
            /\ ~has_gun => fn_ret.v = RInt(0)
            /\ (has_gun /\ fn_call.target.found /\ dist.k = "num") =>
                   fn_ret.v = (IF dist.v <= 9100000 THEN RInt(100 - penalty)
                               ELSE IF dist.v <= 13000000 THEN RInt(80 - penalty)
                               ELSE RInt(0))


(***************************************************************************)
(* score_flight_ops called on its own                                      *)
(***************************************************************************)
\* The calls: winds around 10, 25 and 35 kts and null, visibility around
\* 3000 and at 5000, with and without precipitation, cloud and waves, and
\* without weather or marine data; formations without vessels, without and
\* with a flight deck.
FlightCalls ==
    {[weather |-> w, marine |-> m, vessels |-> vessels] :
        w \in {None} \cup
              {Weather(wind, Num(precip), Num(cloud), Num(vis)) :
                  wind \in {Num(0), Num(9), Num(10), Num(25), Num(26), Num(35),
                            Num(36), None},
                  precip \in {0, 3}, cloud \in {40, 90}, vis \in {2999, 3000, 5000}},
        m \in {None, Marine(Num(3), Num(2), Num(1)), Marine(Num(7), Num(7), Num(3))},
        vessels \in {<<>>, <<Vessel(Num(50), FALSE, TRUE)>>,
                     <<Vessel(Num(50), FALSE, TRUE), Vessel(Num(65), TRUE, FALSE)>>}}

InitFlight ==
    /\ cache = EmptyCache
    /\ bathy_calls = <<>>
    /\ NoCollector
    /\ NoAnalyzer
    /\ fn_call \in FlightCalls
    /\ fn_ret = NotReturned

\* score_flight_ops(weather, marine, vessels)
CallScoreFlightOps ==
    /\ ~Returned
    /\ fn_ret' = score_flight_ops(fn_call.weather, fn_call.marine, fn_call.vessels)
    /\ UNCHANGED <<fn_call, bathy_vars, collect_vars, analyzer_vars>>

NextFlight == CallScoreFlightOps

SpecFlight == InitFlight /\ [][NextFlight]_vars

\* The call has weather and marine data, the wind is a number, and nothing
\* but the wind costs points: visibility 5000 or more, cloud 50 or less,
\* waves 4 or less, no precipitation.
OnlyWindCounts ==
    /\ fn_call.weather # None
    /\ fn_call.marine # None
    /\ fn_call.weather.wind_speed_10m.k = "num"
    /\ fn_call.weather.visibility.v >= 5000
    /\ fn_call.weather.cloud_cover.v <= 50
    /\ fn_call.weather.precipitation.v = 0
    /\ fn_call.marine.wave_height.v <= 4

NM == 1000000

\* The calls: a minimum that is not configured, 0, 2 or 5 nm, a maximum that
\* is not configured, 10, 50 or 60 nm, and distances from the center on
\* both sides of each of them.
DistanceCalls ==
    {[point |-> [distance_from_center_nm |-> Num(dist)],
      inputs |-> [min_distance_shore_nm |-> lo, max_distance_shore_nm |-> hi]] :
        dist \in {0, 1 * NM, 3 * NM, 5 * NM, 7 * NM, 10 * NM, 11 * NM, 50 * NM,
                  55 * NM, 60 * NM, 61 * NM},
        lo \in {Missing, Num(0), Num(2), Num(5)},
        hi \in {Missing, Num(10), Num(50), Num(60)}}

InitDistance ==
    /\ cache = EmptyCache
    /\ bathy_calls = <<>>
    /\ NoCollector
    /\ NoAnalyzer
    /\ fn_call \in DistanceCalls
    /\ fn_ret = NotReturned

\* NavalOperationsAnalyzer(inputs, data).score_distance_constraints(point)
CallScoreDistanceConstraints ==
    /\ ~Returned
    /\ fn_ret' = score_distance_constraints(fn_call.point, fn_call.inputs)
    /\ UNCHANGED <<fn_call, bathy_vars, collect_vars, analyzer_vars>>

NextDistance == CallScoreDistanceConstraints

SpecDistance == InitDistance /\ [][NextDistance]_vars

\* C20: score_distance_constraints returns 100 when distance_from_center_nm
\* lies inside [min_distance_shore_nm, max_distance_shore_nm] and 20 when it
\* lies outside, for every configured pair of bounds, a minimum of 0
\* included; the defaults 5 and 50 are used only for a bound that is not
\* configured.
C20_DistanceBandAsConfigured ==
    Returned =>
        LET lo == IF fn_call.inputs.min_distance_shore_nm = Missing THEN 5
                  ELSE fn_call.inputs.min_distance_shore_nm.v
            hi == IF fn_call.inputs.max_distance_shore_nm = Missing THEN 50
                  ELSE fn_call.inputs.max_distance_shore_nm.v
            dist == fn_call.point.distance_from_center_nm.v
        IN  /\ fn_ret.err = ""
            /\ fn_ret.v = (IF lo * NM <= dist /\ dist <= hi * NM THEN RInt(100)
                           ELSE RInt(20))


(***************************************************************************)
(* The run statistics of collect                                           *)
(***************************************************************************)
RECURSIVE SumOver(_, _)
SumOver(counts, keys) ==
    IF keys = {} THEN 0
    ELSE LET key == CHOOSE k \in keys : TRUE
         IN  counts[key] + SumOver(counts, keys \ {key})

\* sum(bathy_sources.values())
SourceTotal(sources) == SumOver(sources, DOMAIN sources)

\* The progress reports made so far, in order.
ProgressReports == [n \in DOMAIN Positions("progress") |-> trace[Positions("progress")[n]]]

\* C21: the run statistics are conserved.  While collect is in its loop and
\* after it, ocean_points + land_points is the number of points processed,
\* the bathymetry source counts sum to it, and ocean_points is the number of
\* records in analyzed_points; every progress report with done count k shows
\* statistics with ocean_points + land_points = k and source counts that
\* sum to k, and the latest report shows the statistics as they are; the
\* metadata of the result has points_ocean + points_land = points_total =
\* the number of grid points and points_ocean = len(analyzed_points).
C21_StatisticsConserved ==
    /\ pc \in {"marine", "bathymetry", "astro", "done"} =>
        /\ stats.ocean_points + stats.land_points = i
        /\ SourceTotal(stats.bathy_sources) = i
        /\ stats.ocean_points = Len(analyzed_points)
        /\ stats.total_points = Len(grid_points)
        /\ inputs.progress => Len(ProgressReports) = i
        /\ (inputs.progress /\ i > 0) => ProgressReports[i].stats = stats
    /\ \A n \in DOMAIN ProgressReports :
        LET report == ProgressReports[n] IN
        /\ report.a = n
        /\ report.b = Len(grid_points)
        /\ report.stats.ocean_points + report.stats.land_points = report.a
        /\ SourceTotal(report.stats.bathy_sources) = report.a
        /\ report.stats.total_points = Len(grid_points)
    /\ pc = "done" =>
        /\ data.metadata.points_ocean + data.metadata.points_land
               = data.metadata.points_total
        /\ data.metadata.points_total = Len(data.grid_points)
        /\ data.metadata.points_ocean = Len(data.analyzed_points)
        /\ SourceTotal(data.metadata.bathymetry_sources) = data.metadata.points_total

\* A finished run with progress reports that met land and ocean points and
\* counted one bathymetry source more than once.
C21_Witness ==
    /\ pc = "done"
    /\ inputs.progress
    /\ Len(ProgressReports) >= 3
    /\ data.metadata.points_land > 0
    /\ data.metadata.points_ocean > 0
    /\ \E src \in DOMAIN data.metadata.bathymetry_sources :
        data.metadata.bathymetry_sources[src] > 1


(***************************************************************************)
(* collect, and score_fire_support on the points it returned               *)
(***************************************************************************)
\* The runs: the center given as coordinates; the target given as
\* coordinates, as a name the geocoding API may or may not know, as a name
\* with a comma, or not at all; every geometry.
TargetScenarios ==
    {Inputs(CenterText, t, g, <<0, 360000000>>, FALSE) :
        t \in {TargetText, LocName, LocNameComma, LocEmpty}, g \in Geometries}

\* Ocean of 328 ft, ocean of 16 ft, land, and the fallback estimate.
TargetBathyOutcomes == CollectBathyOutcomes \cup {FetchElevation(-5)}

InitTarget ==
    /\ cache = EmptyCache
    /\ bathy_calls = <<>>
    /\ inputs \in TargetScenarios
    /\ pc = "geocode_center"
    /\ center = NoPlace
    /\ target = NoPlace
    /\ region_weather = Unset
    /\ attempt = 0
    /\ grid_points = <<>>
    /\ i = 0
    /\ marine = Unset
    /\ stats = Unset
    /\ analyzed_points = <<>>
    /\ trace = <<>>
    /\ data = Unset
    /\ NoAnalyzer
    /\ NoCall

\* NavalOperationsAnalyzer(inputs, data).score_fire_support(point, vessels)
\* for data the result of collect and point one of its analyzed_points.
ScoreCollectedPoint(k, vessels) ==
    /\ pc = "done"
    /\ ~Returned
    /\ k \in DOMAIN data.analyzed_points
    /\ fn_call' = [point |-> data.analyzed_points[k], vessels |-> vessels,
                   target |-> data.target]
    /\ fn_ret' = score_fire_support(data.analyzed_points[k], vessels, data)
    /\ UNCHANGED <<bathy_vars, collect_vars, analyzer_vars>>

NextTarget ==
    \/ \E outcome \in GeoOutcomes : GeocodeCenter(outcome)
    \/ \E outcome \in GeoOutcomes : GeocodeTarget(outcome)
    \/ \E outcome \in WeatherOutcomes : RegionalWeatherAttempt(outcome)
    \/ GenerateGrid
    \/ \E outcome \in MarineOutcomes : FetchMarine(outcome)
    \/ \E outcome \in TargetBathyOutcomes : FetchBathymetry(outcome)
    \/ \E outcome \in AstroOutcomes : FetchAstro(outcome)
    \/ \E k \in 1..4, vessels \in {f \in Formations : Len(f) <= 2} :
           ScoreCollectedPoint(k, vessels)

SpecTarget == InitTarget /\ [][NextTarget]_vars

====
